---- MODULE Spec2Model ----
(***************************************************************************)
(* Model of the document analysis-and-reconciliation pipeline of           *)
(* ai-doc-sign-app (services/aiService.ts).                                *)
(*                                                                         *)
(* JavaScript strings are TLA+ strings, read character by character with  *)
(* SubSeq.  JavaScript values that come out of JSON.parse are modelled by  *)
(* a single record shape (see Undefined .. Obj below) so that a missing    *)
(* member, a null, a string where an array is expected, and so on, are all *)
(* values the pipeline can meet, as they are in the program.               *)
(***************************************************************************)
EXTENDS Integers, Sequences, FiniteSets, TLC

----------------------------------------------------------------------------
(* Bounds of the model *)

\* most points in a drawn signature offered as input
MaxPoints == 2

\* the longest list of fields or questions of a direct call
MaxFields == 2

\* most documents in the item of the secure store before a call
MaxStored == 11

\* the longest text, in UTF-16 code units, detectLanguage is called with
MaxUnits == 3
\* lines of a document text
MaxLines == 3

----------------------------------------------------------------------------
(* String primitives: the methods of String.prototype the program uses *)

Char(s, i) == SubSeq(s, i, i)

Includes(s, sub) ==
    \E i \in 1..(Len(s) - Len(sub) + 1) : SubSeq(s, i, i + Len(sub) - 1) = sub

StartsWith(s, p) == Len(p) <= Len(s) /\ SubSeq(s, 1, Len(p)) = p

\* String.prototype.substring(0, n)
Substring0(s, n) == IF Len(s) <= n THEN s ELSE SubSeq(s, 1, n)

UpperLetters == "ABCDEFGHIJKLMNOPQRSTUVWXYZ"
LowerLetters == "abcdefghijklmnopqrstuvwxyz"

LowerChar(c) ==
    IF \E i \in 1..26 : Char(UpperLetters, i) = c
    THEN Char(LowerLetters, CHOOSE i \in 1..26 : Char(UpperLetters, i) = c)
    ELSE c

UpperChar(c) ==
    IF \E i \in 1..26 : Char(LowerLetters, i) = c
    THEN Char(UpperLetters, CHOOSE i \in 1..26 : Char(LowerLetters, i) = c)
    ELSE c

\* the recursions over the characters of a string split the string in two
\* halves, which keeps them shallow
RECURSIVE ToLowerCase(_)
ToLowerCase(s) ==
    IF Len(s) <= 1 THEN LowerChar(s)
    ELSE ToLowerCase(SubSeq(s, 1, Len(s) \div 2))
           \o ToLowerCase(SubSeq(s, Len(s) \div 2 + 1, Len(s)))

RECURSIVE ToUpperCase(_)
ToUpperCase(s) ==
    IF Len(s) <= 1 THEN UpperChar(s)
    ELSE ToUpperCase(SubSeq(s, 1, Len(s) \div 2))
           \o ToUpperCase(SubSeq(s, Len(s) \div 2 + 1, Len(s)))

\* \s of the regular expressions, over the characters the model uses
IsSpace(c) == c \in {" ", "\n", "\t"}

\* String.prototype.trim
Trim(s) ==
    IF \A i \in 1..Len(s) : IsSpace(Char(s, i)) THEN ""
    ELSE LET a == CHOOSE i \in 1..Len(s) :
                      /\ ~IsSpace(Char(s, i))
                      /\ \A j \in 1..(i - 1) : IsSpace(Char(s, j))
             b == CHOOSE i \in 1..Len(s) :
                      /\ ~IsSpace(Char(s, i))
                      /\ \A j \in (i + 1)..Len(s) : IsSpace(Char(s, j))
         IN SubSeq(s, a, b)

\* String.prototype.split(sep) for a one-character separator
RECURSIVE Split(_, _)
Split(s, sep) ==
    IF ~Includes(s, sep) THEN <<s>>
    ELSE LET i == CHOOSE j \in 1..Len(s) :
                      /\ Char(s, j) = sep
                      /\ \A m \in 1..(j - 1) : Char(s, m) # sep
         IN <<SubSeq(s, 1, i - 1)>> \o Split(SubSeq(s, i + 1, Len(s)), sep)

\* String.prototype.replace(sub, '') : removes the first occurrence only
RemoveFirst(s, sub) ==
    IF ~Includes(s, sub) THEN s
    ELSE LET i == CHOOSE j \in 1..(Len(s) - Len(sub) + 1) :
                      /\ SubSeq(s, j, j + Len(sub) - 1) = sub
                      /\ \A m \in 1..(j - 1) : SubSeq(s, m, m + Len(sub) - 1) # sub
         IN SubSeq(s, 1, i - 1) \o SubSeq(s, i + Len(sub), Len(s))

\* s.split('/').pop()
LastSegment(s) == LET parts == Split(s, "/") IN parts[Len(parts)]

----------------------------------------------------------------------------
(* JavaScript values *)

Undefined == [t |-> "undefined", s |-> "", n |-> 0, k |-> <<>>, e |-> <<>>]
Null      == [t |-> "null", s |-> "", n |-> 0, k |-> <<>>, e |-> <<>>]
Str(x)    == [t |-> "string", s |-> x, n |-> 0, k |-> <<>>, e |-> <<>>]
Num(x)    == [t |-> "number", s |-> "", n |-> x, k |-> <<>>, e |-> <<>>]
Bool(b)   == [t |-> "boolean", s |-> "", n |-> IF b THEN 1 ELSE 0, k |-> <<>>, e |-> <<>>]
Arr(es)   == [t |-> "array", s |-> "", n |-> 0, k |-> <<>>, e |-> es]
Obj(ks, es) == [t |-> "object", s |-> "", n |-> 0, k |-> ks, e |-> es]

IsString(v) == v.t = "string"
IsArray(v)  == v.t = "array"
IsNullish(v) == v.t \in {"undefined", "null"}

\* ToBoolean
Truthy(v) ==
    CASE v.t \in {"undefined", "null"} -> FALSE
      [] v.t = "string"  -> v.s # ""
      [] v.t = "number"  -> v.n # 0
      [] v.t = "boolean" -> v.n = 1
      [] OTHER -> TRUE

\* a || b
OrElse(a, b) == IF Truthy(a) THEN a ELSE b

HasKey(o, key) == o.t = "object" /\ \E i \in 1..Len(o.k) : o.k[i] = key

\* o.key, for o that is not null or undefined; strings, numbers and arrays
\* have none of the members the program reads this way
Get(o, key) ==
    IF HasKey(o, key)
    THEN o.e[CHOOSE i \in 1..Len(o.k) : o.k[i] = key]
    ELSE Undefined

\* o?.key
GetOpt(o, key) == IF IsNullish(o) THEN Undefined ELSE Get(o, key)

\* o.key = v (on an object; insertion order is kept)
Put(o, key, v) ==
    IF HasKey(o, key)
    THEN LET i == CHOOSE j \in 1..Len(o.k) : o.k[j] = key
         IN [o EXCEPT !.e[i] = v]
    ELSE [o EXCEPT !.k = Append(o.k, key), !.e = Append(o.e, v)]

----------------------------------------------------------------------------
(* JSON.parse and JSON.stringify, over the JSON texts the model uses:      *)
(* objects, arrays, strings without escapes, non-negative integers, true,  *)
(* false and null, with blanks between tokens.                             *)

Digits == "0123456789"
IsDigit(c) == \E i \in 1..10 : Char(Digits, i) = c
DigitVal(c) == (CHOOSE i \in 1..10 : Char(Digits, i) = c) - 1

RECURSIVE DigitsVal(_)
DigitsVal(s) ==
    IF s = "" THEN 0
    ELSE DigitsVal(SubSeq(s, 1, Len(s) - 1)) * 10 + DigitVal(Char(s, Len(s)))

Tok(c, s, n) == [c |-> c, s |-> s, n |-> n]

\* index of the first character at or after i that does not satisfy the
\* digit test, Len(s) + 1 when there is none
DigitsEnd(s, i) ==
    IF \A j \in i..Len(s) : IsDigit(Char(s, j)) THEN Len(s) + 1
    ELSE CHOOSE j \in i..Len(s) :
             /\ ~IsDigit(Char(s, j))
             /\ \A m \in i..(j - 1) : IsDigit(Char(s, m))

\* the tokens, from position i on, of a stretch of text that holds no string
\* literal; a character that starts no JSON token gives a final "junk" token
RECURSIVE LexPlain(_, _)
LexPlain(s, i) ==
    IF i > Len(s) THEN <<>>
    ELSE LET c == Char(s, i) IN
      CASE IsSpace(c) -> LexPlain(s, i + 1)
        [] c \in {"{", "}", "[", "]", ",", ":"} -> <<Tok(c, "", 0)>> \o LexPlain(s, i + 1)
        [] IsDigit(c) ->
             LET d == DigitsEnd(s, i) IN
             IF c = "0" /\ d > i + 1 THEN <<Tok("junk", "", 0)>>
             ELSE <<Tok("number", "", DigitsVal(SubSeq(s, i, d - 1)))>> \o LexPlain(s, d)
        [] i + 3 <= Len(s) /\ SubSeq(s, i, i + 3) = "true" ->
             <<Tok("true", "", 0)>> \o LexPlain(s, i + 4)
        [] i + 3 <= Len(s) /\ SubSeq(s, i, i + 3) = "null" ->
             <<Tok("null", "", 0)>> \o LexPlain(s, i + 4)
        [] i + 4 <= Len(s) /\ SubSeq(s, i, i + 4) = "false" ->
             <<Tok("false", "", 0)>> \o LexPlain(s, i + 5)
        [] OTHER -> <<Tok("junk", "", 0)>>

\* the positions of s that hold the character c, in increasing order
PositionsOf(s, c) ==
    SelectSeq([i \in 1..Len(s) |-> i], LAMBDA j : Char(s, j) = c)

\* parts[1] \o ... \o parts[Len(parts)], for parts that are all sequences
\* or all strings (of strings there is at least one)
RECURSIVE Concat(_)
Concat(parts) ==
    IF Len(parts) = 0 THEN <<>>
    ELSE IF Len(parts) = 1 THEN parts[1]
    ELSE Concat(SubSeq(parts, 1, Len(parts) \div 2))
           \o Concat(SubSeq(parts, Len(parts) \div 2 + 1, Len(parts)))

\* the tokens of s: the quotes cut s in stretches that are, in turn, outside
\* and inside a string literal; a literal that is not closed gives "junk"
Lex(s) ==
    LET quotes == PositionsOf(s, "\"")
        cuts == <<0>> \o quotes \o <<Len(s) + 1>>
        stretch(k) == SubSeq(s, cuts[k] + 1, cuts[k + 1] - 1)
        tokens(k) == IF k % 2 = 1 THEN LexPlain(stretch(k), 1)
                     ELSE IF k = Len(quotes) + 1 THEN <<Tok("junk", "", 0)>>
                     ELSE <<Tok("string", stretch(k), 0)>>
    IN Concat([k \in 1..(Len(quotes) + 1) |-> tokens(k)])

ParseFail == [ok |-> FALSE, v |-> Undefined, next |-> 0]
ParseOk(v, next) == [ok |-> TRUE, v |-> v, next |-> next]

RECURSIVE ParseValue(_, _), ParseMembers(_, _, _), ParseElements(_, _, _)

\* value ::= string | number | true | false | null | object | array
ParseValue(toks, i) ==
    IF i > Len(toks) THEN ParseFail
    ELSE LET c == toks[i].c IN
      CASE c = "string" -> ParseOk(Str(toks[i].s), i + 1)
        [] c = "number" -> ParseOk(Num(toks[i].n), i + 1)
        [] c = "true"   -> ParseOk(Bool(TRUE), i + 1)
        [] c = "false"  -> ParseOk(Bool(FALSE), i + 1)
        [] c = "null"   -> ParseOk(Null, i + 1)
        [] c = "{" ->
             IF i + 1 <= Len(toks) /\ toks[i + 1].c = "}"
             THEN ParseOk(Obj(<<>>, <<>>), i + 2)
             ELSE ParseMembers(toks, i + 1, Obj(<<>>, <<>>))
        [] c = "[" ->
             IF i + 1 <= Len(toks) /\ toks[i + 1].c = "]"
             THEN ParseOk(Arr(<<>>), i + 2)
             ELSE ParseElements(toks, i + 1, <<>>)
        [] OTHER -> ParseFail

\* members ::= string ':' value ( ',' members | '}' )
ParseMembers(toks, i, acc) ==
    IF i + 1 > Len(toks) \/ toks[i].c # "string" \/ toks[i + 1].c # ":" THEN ParseFail
    ELSE LET r == ParseValue(toks, i + 2) IN
      IF ~r.ok \/ r.next > Len(toks) THEN ParseFail
      ELSE LET acc2 == Put(acc, toks[i].s, r.v) IN
        CASE toks[r.next].c = "}" -> ParseOk(acc2, r.next + 1)
          [] toks[r.next].c = "," -> ParseMembers(toks, r.next + 1, acc2)
          [] OTHER -> ParseFail

\* elements ::= value ( ',' elements | ']' )
ParseElements(toks, i, acc) ==
    LET r == ParseValue(toks, i) IN
      IF ~r.ok \/ r.next > Len(toks) THEN ParseFail
      ELSE LET acc2 == Append(acc, r.v) IN
        CASE toks[r.next].c = "]" -> ParseOk(Arr(acc2), r.next + 1)
          [] toks[r.next].c = "," -> ParseElements(toks, r.next + 1, acc2)
          [] OTHER -> ParseFail

ParseText(text) == LET toks == Lex(text) IN ParseValue(toks, 1)

\* JSON.parse(text) throws a SyntaxError
JSONParseThrows(text) ==
    LET toks == Lex(text)
        r == ParseValue(toks, 1)
    IN ~r.ok \/ r.next # Len(toks) + 1

\* JSON.parse(text) when it does not throw
JSONParse(text) == ParseText(text).v

RECURSIVE JSONStringify(_), StringifyMembers(_, _), StringifyElements(_, _)

\* JSON.stringify(v) for v that is not undefined
JSONStringify(v) ==
    CASE v.t = "string"  -> "\"" \o v.s \o "\""
      [] v.t = "number"  -> ToString(v.n)
      [] v.t = "boolean" -> IF v.n = 1 THEN "true" ELSE "false"
      [] v.t = "array"   -> "[" \o StringifyElements(v.e, 1) \o "]"
      [] v.t = "object"  -> "{" \o StringifyMembers(v, 1) \o "}"
      [] OTHER -> "null"

\* members whose value is undefined are left out
StringifyMembers(o, i) ==
    IF i > Len(o.k) THEN ""
    ELSE IF o.e[i].t = "undefined" THEN StringifyMembers(o, i + 1)
    ELSE LET rest == StringifyMembers(o, i + 1)
             this == "\"" \o o.k[i] \o "\":" \o JSONStringify(o.e[i])
         IN IF rest = "" THEN this ELSE this \o "," \o rest

StringifyElements(es, i) ==
    IF i > Len(es) THEN ""
    ELSE JSONStringify(es[i]) \o (IF i < Len(es) THEN "," ELSE "")
             \o StringifyElements(es, i + 1)

----------------------------------------------------------------------------
(* Heuristic (fallback) analysis.                                          *)
(* The characters of the model are ASCII and the Hebrew letters; the       *)
(* tests of the source for characters of other scripts (Arabic, Chinese,   *)
(* Japanese keywords, the ballot box U+2610) cannot match a model string   *)
(* and are written as FALSE where they occur.                              *)

HebrewLetters == "אבגדהוזחטיךכלםמןנסעףפץצקרשת"

\* /[֐-׿]/.test(text), over the characters of the model
HasHebrewChar(text) ==
    \E i \in 1..Len(text) : \E j \in 1..Len(HebrewLetters) :
        Char(text, i) = Char(HebrewLetters, j)

detectLanguage(text) == IF HasHebrewChar(text) THEN "he" ELSE "en"

\* a code unit of units lies in first..last: /[first-last]/.test(text)
HasUnitIn(units, first, last) ==
    \E i \in 1..Len(units) : first <= units[i] /\ units[i] <= last

\* detectLanguage with the Japanese test moved before the Hebrew one
detectLanguageJapaneseFirst(units) ==
    IF HasUnitIn(units, 12352, 12447) \/ HasUnitIn(units, 12448, 12543) THEN "ja"
    ELSE IF HasUnitIn(units, 1424, 1535) THEN "he"
    ELSE IF HasUnitIn(units, 1536, 1791) THEN "ar"
    ELSE IF HasUnitIn(units, 19968, 40959) THEN "zh"
    ELSE IF HasUnitIn(units, 44032, 55215) THEN "ko"
    ELSE IF HasUnitIn(units, 1024, 1279) THEN "ru"
    ELSE IF HasUnitIn(units, 3584, 3711) THEN "th"
    ELSE IF HasUnitIn(units, 2304, 2431) THEN "hi"
    ELSE "en"

\* detectLanguage for a text given as its UTF-16 code units, which reaches
\* the scripts a string of the model cannot hold: 0x0590 = 1424, 0x05FF =
\* 1535, 0x0600 = 1536, 0x06FF = 1791, 0x4E00 = 19968, 0x9FFF = 40959,
\* 0x3040 = 12352, 0x309F = 12447, 0x30A0 = 12448, 0x30FF = 12543,
\* 0xAC00 = 44032, 0xD7AF = 55215, 0x0400 = 1024, 0x04FF = 1279,
\* 0x0E00 = 3584, 0x0E7F = 3711, 0x0900 = 2304, 0x097F = 2431
detectLanguageOfUnits(units) ==
    IF HasUnitIn(units, 1424, 1535) THEN "he"
    ELSE IF HasUnitIn(units, 1536, 1791) THEN "ar"
    ELSE IF HasUnitIn(units, 19968, 40959) THEN "zh"
    ELSE IF HasUnitIn(units, 12352, 12447) \/ HasUnitIn(units, 12448, 12543) THEN "ja"
    ELSE IF HasUnitIn(units, 44032, 55215) THEN "ko"
    ELSE IF HasUnitIn(units, 1024, 1279) THEN "ru"
    ELSE IF HasUnitIn(units, 3584, 3711) THEN "th"
    ELSE IF HasUnitIn(units, 2304, 2431) THEN "hi"
    ELSE "en"

\* content.split(/\s+/).length
WordCount(content) ==
    1 + Cardinality({i \in 1..Len(content) :
            /\ IsSpace(Char(content, i))
            /\ (i = 1 \/ ~IsSpace(Char(content, i - 1)))})

IsLabelPad(c) == c = "_" \/ IsSpace(c)

\* line.replace(/[_\s]+$/, '')
StripTrailingPad(s) ==
    IF \A i \in 1..Len(s) : IsLabelPad(Char(s, i)) THEN ""
    ELSE SubSeq(s, 1, CHOOSE i \in 1..Len(s) :
                          /\ ~IsLabelPad(Char(s, i))
                          /\ \A j \in (i + 1)..Len(s) : IsLabelPad(Char(s, j)))

\* line.replace(/^[_\s]+/, '')
StripLeadingPad(s) ==
    IF \A i \in 1..Len(s) : IsLabelPad(Char(s, i)) THEN ""
    ELSE SubSeq(s, CHOOSE i \in 1..Len(s) :
                       /\ ~IsLabelPad(Char(s, i))
                       /\ \A j \in 1..(i - 1) : IsLabelPad(Char(s, j)),
                Len(s))

extractFieldLabel(line) ==
    LET label == Trim(RemoveFirst(StripLeadingPad(StripTrailingPad(line)), "[ ]"))
    IN IF label = "" THEN "Field" ELSE label

Position(x, y, w, h) ==
    Obj(<<"x", "y", "width", "height">>, <<Num(x), Num(y), Num(w), Num(h)>>)

\* confidence is kept in hundredths (0.8 is 80)
HeuristicField(id, type, label, required, pos, conf) ==
    Obj(<<"id", "type", "label", "required", "position", "page", "confidence">>,
        <<Str(id), Str(type), Str(label), Bool(required), pos, Num(1), Num(conf)>>)

\* fields whose id names the kind of the field only
FieldsOfLineUnnumbered(line, index) ==
    LET trimmedLine == Trim(line) IN
    IF Includes(trimmedLine, "_____") \/ Includes(trimmedLine, "________")
    THEN <<HeuristicField("field", "text", extractFieldLabel(trimmedLine), TRUE,
                          Position(100, 150 + index * 30, 200, 30), 80)>>
    ELSE IF Includes(trimmedLine, "[ ]")
    THEN <<HeuristicField("checkbox", "checkbox", extractFieldLabel(trimmedLine), FALSE,
                          Position(100, 150 + index * 30, 20, 20), 90)>>
    ELSE IF \/ Includes(ToLowerCase(trimmedLine), "signature")
            \/ Includes(ToLowerCase(trimmedLine), "חתימה")
    THEN <<HeuristicField("signature", "signature", extractFieldLabel(trimmedLine), TRUE,
                          Position(100, 150 + index * 30, 150, 50), 95)>>
    ELSE <<>>

\* the body of the forEach of extractFormFieldsFromContent: the fields that
\* line number index (from 0) pushes
FieldsOfLine(line, index) ==
    LET trimmedLine == Trim(line) IN
    IF Includes(trimmedLine, "_____") \/ Includes(trimmedLine, "________")
    THEN <<HeuristicField("field_" \o ToString(index), "text",
                          extractFieldLabel(trimmedLine), TRUE,
                          Position(100, 150 + index * 30, 200, 30), 80)>>
    ELSE IF Includes(trimmedLine, "[ ]") \/ FALSE
    THEN <<HeuristicField("checkbox_" \o ToString(index), "checkbox",
                          extractFieldLabel(trimmedLine), FALSE,
                          Position(100, 150 + index * 30, 20, 20), 90)>>
    ELSE IF \/ Includes(ToLowerCase(trimmedLine), "signature")
            \/ Includes(ToLowerCase(trimmedLine), "חתימה")
            \/ FALSE
    THEN <<HeuristicField("signature_" \o ToString(index), "signature",
                          extractFieldLabel(trimmedLine), TRUE,
                          Position(100, 150 + index * 30, 150, 50), 95)>>
    ELSE <<>>

extractFormFieldsFromContent(content) ==
    LET lines == Split(content, "\n")
    IN Concat([i \in 1..Len(lines) |-> FieldsOfLine(lines[i], i - 1)])

QuestionsOfLine(line, index) ==
    LET trimmedLine == Trim(line) IN
    IF \/ Includes(trimmedLine, "?")
       \/ Includes(ToLowerCase(trimmedLine), "do you")
       \/ Includes(ToLowerCase(trimmedLine), "have you")
       \/ Includes(ToLowerCase(trimmedLine), "are you")
    THEN <<Obj(<<"id", "text", "type", "position", "page", "confidence", "aiSuggestion">>,
               <<Str("question_" \o ToString(index)), Str(trimmedLine), Str("yes_no"),
                 Position(100, 200 + index * 30, 300, 30), Num(1), Num(80),
                 Str("Please answer based on your situation")>>)>>
    ELSE <<>>

extractQuestionsFromContent(content) ==
    LET lines == Split(content, "\n")
    IN Concat([i \in 1..Len(lines) |-> QuestionsOfLine(lines[i], i - 1)])

getGenericSignatures(language) ==
    LET label == IF language = "he" THEN "חתימה" ELSE "Signature"
    IN <<Obj(<<"id", "label", "required", "position", "page">>,
             <<Str("1"), Str(label), Bool(TRUE), Position(100, 500, 150, 50), Num(1)>>)>>

StrArr(ss) == Arr([i \in 1..Len(ss) |-> Str(ss[i])])

getFallbackAnalysis(content, fileType) ==
    LET language == detectLanguage(content)
        wordCount == WordCount(content)
        hasHebrew == \/ Includes(content, "בלינק")
                     \/ Includes(content, "פינטק")
                     \/ Includes(content, "ויתור")
        category == IF hasHebrew THEN "legal_waiver" ELSE "general_form"
        insights == IF hasHebrew
                    THEN <<"Hebrew legal document detected",
                           "Contains waiver and legal clauses",
                           "Requires careful review before signing">>
                    ELSE <<"Document contains form fields requiring user input">>
    IN Obj(<<"language", "category", "summary", "keyInsights", "riskAssessment",
             "formFields", "questions", "signatures">>,
           <<Str(language), Str(category),
             Str(ToUpperCase(language) \o " document analysis with approximately "
                   \o ToString(wordCount) \o " words"),
             StrArr(insights),
             Obj(<<"level", "issues", "recommendations">>,
                 <<Str("medium"), StrArr(<<"Document requires careful review">>),
                   StrArr(<<"Review all terms before signing",
                            "Verify personal information">>)>>),
             Arr(extractFormFieldsFromContent(content)),
             Arr(extractQuestionsFromContent(content)),
             Arr(getGenericSignatures(language))>>)

----------------------------------------------------------------------------
(* Reconciliation of the analysis with the user's data *)

\* a === b : primitives by value; two objects or arrays met here are never
\* the same object (they come from different places of freshly parsed or
\* freshly built values)
StrictEq(a, b) == a.t = b.t /\ a.t \notin {"object", "array"} /\ a = b

\* `${v}`
TemplateString(v) ==
    CASE v.t = "string"    -> v.s
      [] v.t = "number"    -> ToString(v.n)
      [] v.t = "boolean"   -> IF v.n = 1 THEN "true" ELSE "false"
      [] v.t = "undefined" -> "undefined"
      [] v.t = "null"      -> "null"
      [] v.t = "object"    -> "[object Object]"
      [] OTHER             -> ""

\* new Date().toISOString().split('T')[0] on the day of the run
Today == "2025-01-01"

\* this.userProfile as loadUserProfile sets it (the members the service reads)
userProfile ==
    Obj(<<"name", "email", "phone", "address", "company", "occupation">>,
        <<Str("John Doe"), Str("john.doe@example.com"), Str("+1 (555) 123-4567"),
          Str("123 Main St, City, State 12345"), Str("Tech Corp"),
          Str("Software Engineer")>>)

\* the first entry of userData, from position i on, that the loop "Check for
\* partial matches" returns; Null when it returns none
RECURSIVE PartialMatch(_, _, _)
PartialMatch(label, userData, i) ==
    IF i > Len(userData.k) THEN Null
    ELSE IF IsString(userData.e[i]) /\ Includes(label, ToLowerCase(userData.k[i]))
    THEN userData.e[i]
    ELSE PartialMatch(label, userData, i + 1)

\* fieldLabel.toLowerCase() throws unless fieldLabel is a string
findUserValueThrows(fieldLabel) == ~IsString(fieldLabel)

findUserValue(fieldLabel, userData) ==
    LET label == ToLowerCase(fieldLabel.s) IN
    IF Truthy(Get(userData, "name"))
         /\ (Includes(label, "name") \/ Includes(label, "שם"))
    THEN Get(userData, "name")
    ELSE IF Truthy(Get(userData, "email"))
         /\ (Includes(label, "email") \/ Includes(label, "אימייל"))
    THEN Get(userData, "email")
    ELSE IF Truthy(Get(userData, "phone"))
         /\ (Includes(label, "phone") \/ Includes(label, "טלפון"))
    THEN Get(userData, "phone")
    ELSE IF Truthy(Get(userData, "address"))
         /\ (Includes(label, "address") \/ Includes(label, "כתובת"))
    THEN Get(userData, "address")
    ELSE PartialMatch(label, userData, 1)

\* generateFieldValue without the default branch of its switch
generateFieldValueWithoutDefault(field) ==
    LET label == ToLowerCase(Get(field, "label").s)
        type == Get(field, "type")
    IN CASE type = Str("text") ->
              IF Includes(label, "name") THEN Get(userProfile, "name")
              ELSE IF Includes(label, "email") THEN Get(userProfile, "email")
              ELSE IF Includes(label, "phone") THEN Get(userProfile, "phone")
              ELSE IF Includes(label, "address") THEN Get(userProfile, "address")
              ELSE IF Includes(label, "company") THEN Get(userProfile, "company")
              ELSE IF Includes(label, "occupation") THEN Get(userProfile, "occupation")
              ELSE Str("Sample text")
         [] type = Str("email")     -> Get(userProfile, "email")
         [] type = Str("phone")     -> Get(userProfile, "phone")
         [] type = Str("date")      -> Str(Today)
         [] type = Str("number")    -> Str("42")
         [] type = Str("signature") -> Get(userProfile, "name")
         [] OTHER                   -> Undefined

\* called only after findUserValue, so field.label is a string
generateFieldValue(field) ==
    LET label == ToLowerCase(Get(field, "label").s)
        type == Get(field, "type")
    IN CASE type = Str("text") ->
              IF Includes(label, "name") THEN Get(userProfile, "name")
              ELSE IF Includes(label, "email") THEN Get(userProfile, "email")
              ELSE IF Includes(label, "phone") THEN Get(userProfile, "phone")
              ELSE IF Includes(label, "address") THEN Get(userProfile, "address")
              ELSE IF Includes(label, "company") THEN Get(userProfile, "company")
              ELSE IF Includes(label, "occupation") THEN Get(userProfile, "occupation")
              ELSE Str("Sample text")
         [] type = Str("email")     -> Get(userProfile, "email")
         [] type = Str("phone")     -> Get(userProfile, "phone")
         [] type = Str("date")      -> Str(Today)
         [] type = Str("number")    -> Str("42")
         [] type = Str("signature") -> Get(userProfile, "name")
         [] OTHER                   -> Str("Sample value")

\* the callback of fields.map in fillFormFields
FillField(field, userData) ==
    LET userValue == findUserValue(Get(field, "label"), userData) IN
    IF Truthy(userValue) THEN Put(field, "value", userValue)
    ELSE Put(field, "value", generateFieldValue(field))

\* fields.map is not a function unless fields is an array; field.label of a
\* null element, and toLowerCase of a label that is no string, throw
fillFormFieldsThrows(fields, userData) ==
    \/ ~IsArray(fields)
    \/ \E i \in 1..Len(fields.e) : findUserValueThrows(Get(fields.e[i], "label"))

fillFormFields(fields, userData) ==
    [i \in 1..Len(fields.e) |-> FillField(fields.e[i], userData)]

\* question.options?.[0]
FirstOption(options) ==
    CASE options.t = "array"  -> IF Len(options.e) > 0 THEN options.e[1] ELSE Undefined
      [] options.t = "string" -> IF options.s # "" THEN Str(Char(options.s, 1)) ELSE Undefined
      [] OTHER -> GetOpt(options, "0")

generateQuestionAnswerThrows(question) == ~IsString(Get(question, "text"))

generateQuestionAnswer(question) ==
    LET text == ToLowerCase(Get(question, "text").s)
        type == Get(question, "type")
    IN CASE type = Str("yes_no") ->
              IF Includes(text, "experience") \/ Includes(text, "skill") THEN Str("Yes")
              ELSE IF Includes(text, "criminal") \/ Includes(text, "conviction") THEN Str("No")
              ELSE Str("Yes")
         [] type = Str("multiple_choice") ->
              OrElse(FirstOption(Get(question, "options")), Str("Option 1"))
         [] type = Str("text")   -> Str("Sample answer based on question context")
         [] type = Str("date")   -> Str(Today)
         [] type = Str("number") -> Str("5")
         [] type = Str("rating") -> Str("4")
         [] OTHER                -> Str("Sample answer")

answerQuestionsThrows(questions, userData) ==
    \/ ~IsArray(questions)
    \/ \E i \in 1..Len(questions.e) : generateQuestionAnswerThrows(questions.e[i])

answerQuestions(questions, userData) ==
    [i \in 1..Len(questions.e) |->
        Put(questions.e[i], "value", generateQuestionAnswer(questions.e[i]))]

\* the callback of fields.map with `const filledField = field`: the value is
\* written to the object it was given
InputAfterFillInPlace(field, userData) == FillField(field, userData)

\* the object the callback of fields.map was given, once the callback is
\* over: `{ ...field }` is a new object and both assignments of value go to
\* it, so the object given is as it was
InputAfterFill(field, userData) == field

\* the same for the callback of questions.map
InputAfterAnswer(question) == question

\* the DocumentAnalysis processDocument holds, once fillFormFields and
\* answerQuestions have run over its formFields and questions
AnalysisAfterReconcile(documentAnalysis, userData) ==
    LET formFields == Get(documentAnalysis, "formFields")
        questions == Get(documentAnalysis, "questions")
        afterFill ==
            IF fillFormFieldsThrows(formFields, userData) THEN documentAnalysis
            ELSE Put(documentAnalysis, "formFields",
                     [formFields EXCEPT !.e =
                         [i \in 1..Len(formFields.e) |->
                             InputAfterFill(formFields.e[i], userData)]])
    IN IF fillFormFieldsThrows(formFields, userData)
          \/ answerQuestionsThrows(questions, userData)
       THEN afterFill
       ELSE Put(afterFill, "questions",
                [questions EXCEPT !.e =
                    [i \in 1..Len(questions.e) |-> InputAfterAnswer(questions.e[i])]])

----------------------------------------------------------------------------
(* validateForm *)

\* a character that [^\s@] matches
IsEmailChar(c) == ~IsSpace(c) /\ c # "@"

\* /^[^\s@]+@[^\s@]+\.[^\s@]+$/.test(email)
isValidEmail(email) ==
    \E a \in 2..Len(email) : \E d \in (a + 2)..(Len(email) - 1) :
        /\ Char(email, a) = "@"
        /\ Char(email, d) = "."
        /\ \A i \in 1..Len(email) : i # a => IsEmailChar(Char(email, i))

\* phone.replace(/[\s\-\(\)]/g, '')
StripPhonePunctuation(phone) ==
    Concat([i \in 1..Len(phone) |->
               IF IsSpace(Char(phone, i)) \/ Char(phone, i) \in {"-", "(", ")"}
               THEN "" ELSE Char(phone, i)])

\* /^[\+]?[1-9][\d]{0,15}$/.test(phone.replace(/[\s\-\(\)]/g, ''))
isValidPhone(phone) ==
    LET stripped == StripPhonePunctuation(phone)
        number == IF StartsWith(stripped, "+")
                  THEN SubSeq(stripped, 2, Len(stripped)) ELSE stripped
    IN /\ Len(number) \in 1..16
       /\ Char(number, 1) # "0"
       /\ \A i \in 1..Len(number) : IsDigit(Char(number, i))

\* FieldErrors with the phone format pushed as an error
FieldErrorsWithPhone(field) ==
    LET value == Get(field, "value")
        label == TemplateString(Get(field, "label"))
        minLength == GetOpt(Get(field, "validation"), "minLength")
    IN (IF Truthy(Get(field, "required")) /\ ~Truthy(value)
        THEN <<label \o " is required">> ELSE <<>>)
       \o (IF Truthy(value) /\ Get(field, "type") = Str("email")
              /\ ~isValidEmail(value.s)
           THEN <<label \o " must be a valid email address">> ELSE <<>>)
       \o (IF Truthy(value) /\ Get(field, "type") = Str("phone")
              /\ ~isValidPhone(value.s)
           THEN <<label \o " may not be in the correct format">> ELSE <<>>)
       \o (IF Truthy(value) /\ Truthy(minLength) /\ Len(value.s) < minLength.n
           THEN <<label \o " must be at least " \o TemplateString(minLength)
                    \o " characters">>
           ELSE <<>>)

\* the errors that the forEach body of validateForm pushes for a field whose
\* value, when it has one, is a string
FieldErrors(field) ==
    LET value == Get(field, "value")
        label == TemplateString(Get(field, "label"))
        minLength == GetOpt(Get(field, "validation"), "minLength")
    IN (IF Truthy(Get(field, "required")) /\ ~Truthy(value)
        THEN <<label \o " is required">> ELSE <<>>)
       \o (IF Truthy(value) /\ Get(field, "type") = Str("email")
              /\ ~isValidEmail(value.s)
           THEN <<label \o " must be a valid email address">> ELSE <<>>)
       \o (IF Truthy(value) /\ Truthy(minLength) /\ Len(value.s) < minLength.n
           THEN <<label \o " must be at least " \o TemplateString(minLength)
                    \o " characters">>
           ELSE <<>>)

\* the warnings it pushes
FieldWarnings(field) ==
    LET value == Get(field, "value")
        label == TemplateString(Get(field, "label"))
        maxLength == GetOpt(Get(field, "validation"), "maxLength")
    IN (IF Truthy(value) /\ Get(field, "type") = Str("phone")
              /\ ~isValidPhone(value.s)
        THEN <<label \o " may not be in the correct format">> ELSE <<>>)
       \o (IF Truthy(value) /\ Truthy(maxLength) /\ Len(value.s) > maxLength.n
           THEN <<label \o " is longer than recommended">> ELSE <<>>)

\* validateForm(fields) for a sequence of fields
validateForm(fields) ==
    LET errors == Concat([i \in 1..Len(fields) |-> FieldErrors(fields[i])])
        warnings == Concat([i \in 1..Len(fields) |-> FieldWarnings(fields[i])])
    IN [isValid |-> Len(errors) = 0,
        errors |-> errors,
        warnings |-> warnings,
        suggestions |-> IF Len(errors) = 0 /\ Len(warnings) = 0
                        THEN <<"All fields look good!">> ELSE <<>>]

----------------------------------------------------------------------------
(* RecentDocumentsService (services/recentDocumentsService).  The item of    *)
(* the secure store is a text, "" when there is none; the file system is a   *)
(* function from URIs to what getInfoAsync does for them: "exists",          *)
(* "missing" or "error" (it rejects).  io says which calls of the secure     *)
(* store succeed: read (getItemAsync), rewrite (the setItemAsync of          *)
(* getRecentDocuments) and write (the setItemAsync of the method).  A        *)
(* method is two steps: the one that awaits getRecentDocuments and the one   *)
(* that writes the item.                                                     *)

MAX_RECENT_DOCUMENTS == 10

\* new Date().toISOString()
NowISOString == Today \o "T00:00:00.000Z"

\* FileSystem.getInfoAsync(uri) rejects
InfoRejects(files, uri) ==
    ~IsString(uri) \/ (uri.s \in DOMAIN files /\ files[uri.s] = "error")

\* (await FileSystem.getInfoAsync(uri)).exists
Exists(files, uri) == uri.s \in DOMAIN files /\ files[uri.s] = "exists"

\* the test of the loop of filterValidDocuments: the document is pushed
IsValidDocument(doc, files) ==
    /\ ~IsNullish(doc)
    /\ ~InfoRejects(files, Get(doc, "originalUri"))
    /\ Truthy(Get(doc, "processedUri")) => ~InfoRejects(files, Get(doc, "processedUri"))
    /\ \/ Exists(files, Get(doc, "originalUri"))
       \/ Truthy(Get(doc, "processedUri")) /\ Exists(files, Get(doc, "processedUri"))

filterValidDocuments(documents, files) ==
    SelectSeq(documents, LAMBDA doc : IsValidDocument(doc, files))

\* getRecentDocuments: the list it resolves to and the item it leaves
getRecentDocuments(stored, files, io) ==
    IF ~io.read \/ stored = "" \/ JSONParseThrows(stored)
    THEN [docs |-> <<>>, stored |-> stored]
    ELSE LET documents == JSONParse(stored) IN
         IF ~IsArray(documents) THEN [docs |-> <<>>, stored |-> stored]
         ELSE LET validDocuments == filterValidDocuments(documents.e, files) IN
              IF Len(validDocuments) = Len(documents.e)
              THEN [docs |-> validDocuments, stored |-> stored]
              ELSE IF io.rewrite
              THEN [docs |-> validDocuments,
                    stored |-> JSONStringify(Arr(validDocuments))]
              ELSE [docs |-> <<>>, stored |-> stored]

\* recentDocs.findIndex(doc => doc.name === document.name && doc.size ===
\* document.size), 0 for -1
ExistingIndex(recentDocs, document) ==
    LET found == {i \in 1..Len(recentDocs) :
                     /\ StrictEq(Get(recentDocs[i], "name"), Get(document, "name"))
                     /\ StrictEq(Get(recentDocs[i], "size"), Get(document, "size"))}
    IN IF found = {} THEN 0 ELSE CHOOSE i \in found : \A j \in found : i <= j

\* { ...document, id: Date.now().toString(), processedAt: new Date().toISOString() }
NewDocument(document, time) ==
    Put(Put(document, "id", Str(ToString(time))), "processedAt", Str(NowISOString))

\* addRecentDocument(document) once getRecentDocuments has resolved to
\* recentDocs: the list it stringifies for the secure store
addRecentDocument(document, recentDocs, time) ==
    LET existingIndex == ExistingIndex(recentDocs, document)
        newDocument == NewDocument(document, time)
        updatedDocs == IF existingIndex > 0
                       THEN [recentDocs EXCEPT ![existingIndex] = newDocument]
                       ELSE <<newDocument>> \o recentDocs
    IN SubSeq(updatedDocs, 1,
              IF Len(updatedDocs) < MAX_RECENT_DOCUMENTS
              THEN Len(updatedDocs) ELSE MAX_RECENT_DOCUMENTS)

\* removeRecentDocument(documentId) once getRecentDocuments has resolved to
\* recentDocs: the list it stringifies for the secure store
removeRecentDocument(documentId, recentDocs) ==
    SelectSeq(recentDocs, LAMBDA doc : ~StrictEq(Get(doc, "id"), Str(documentId)))

----------------------------------------------------------------------------
(* SignatureData of processDocument: records with members id, name, type,  *)
(* data (JavaScript values) and isDefault.                                  *)

SignatureData(id, name, type, data, isDefault) ==
    [id |-> id, name |-> name, type |-> type, data |-> data, isDefault |-> isDefault]

IsSignedField(field) ==
    Get(field, "type") = Str("signature") /\ Truthy(Get(field, "value"))

\* field.value.startsWith is not a function unless the value is a string
FieldSignaturesThrows(filledFields) ==
    \E i \in 1..Len(filledFields) :
        IsSignedField(filledFields[i]) /\ ~IsString(Get(filledFields[i], "value"))

RECURSIVE FieldSignatures(_, _)
FieldSignatures(filledFields, i) ==
    IF i > Len(filledFields) THEN <<>>
    ELSE LET field == filledFields[i]
             value == Get(field, "value")
             isImage == \/ StartsWith(value.s, "data:image/")
                        \/ StartsWith(value.s, "data:application/")
             this == IF IsSignedField(field)
                     THEN <<SignatureData(Get(field, "id"),
                                          OrElse(Get(field, "label"), Str("Signature")),
                                          Str(IF isImage THEN "image" ELSE "typed"),
                                          value, FALSE)>>
                     ELSE <<>>
         IN this \o FieldSignatures(filledFields, i + 1)

HasSignatureId(signatures, id) ==
    \E j \in 1..Len(signatures) : StrictEq(signatures[j].id, id)

\* analysis.signatures.forEach is not a function unless it is an array;
\* sig.id of a null element throws
ZoneSignaturesThrows(zones) ==
    \/ ~IsArray(zones)
    \/ \E i \in 1..Len(zones.e) : IsNullish(zones.e[i])

RECURSIVE ZoneSignatures(_, _, _)
ZoneSignatures(zones, i, signatures) ==
    IF i > Len(zones.e) THEN signatures
    ELSE LET sig == zones.e[i] IN
         IF HasSignatureId(signatures, Get(sig, "id"))
         THEN ZoneSignatures(zones, i + 1, signatures)
         ELSE ZoneSignatures(zones, i + 1,
                  Append(signatures,
                         SignatureData(Get(sig, "id"),
                                       OrElse(Get(sig, "label"), Str("Signature")),
                                       Str("typed"), Str("John Doe"), TRUE)))

getDefaultSignatures ==
    <<SignatureData(Str("default_1"), Str("John Doe"), Str("typed"), Str("John Doe"), TRUE),
      SignatureData(Str("default_2"), Str("Digital Signature"), Str("image"),
                    Str("data:image/png;base64,iVBORw0KGgoAAAANSUhEUgAAAAEAAAABCAYAAAAfFcSJAAAADUlEQVR42mNkYPhfDwAChwGA60e6kgAAAABJRU5ErkJggg=="),
                    TRUE)>>

\* "If no signatures found in fields, use user signatures or default signatures"
UserOrDefaultSignatures(userData) ==
    LET us == Get(userData, "signatures") IN
    IF Truthy(us) /\ IsArray(us) /\ Len(us.e) > 0
    THEN IF \E i \in 1..Len(us.e) : IsNullish(us.e[i])
         THEN getDefaultSignatures      \* sig.id throws, caught
         ELSE [i \in 1..Len(us.e) |->
                  SignatureData(OrElse(Get(us.e[i], "id"), Str("user_sig")),
                                OrElse(Get(us.e[i], "name"), Str("User Signature")),
                                OrElse(Get(us.e[i], "type"), Str("typed")),
                                OrElse(Get(us.e[i], "data"), Str("User")),
                                FALSE)]
    ELSE getDefaultSignatures

\* the SignatureData list of processDocument, when building it does not throw
BuildSignatures(filledFields, zones, userData) ==
    LET fromAnalysis == ZoneSignatures(zones, 1, FieldSignatures(filledFields, 1))
    IN IF Len(fromAnalysis) = 0 THEN UserOrDefaultSignatures(userData)
       ELSE fromAnalysis

\* building the list, or logging it with sig.data.substring(0, 50), throws
BuildSignaturesThrows(filledFields, zones, userData) ==
    \/ FieldSignaturesThrows(filledFields)
    \/ ZoneSignaturesThrows(zones)
    \/ LET sigs == BuildSignatures(filledFields, zones, userData)
       IN \E i \in 1..Len(sigs) : ~IsString(sigs[i].data)

----------------------------------------------------------------------------
(* Signature requests.  A request is kept with the identities of the       *)
(* objects reachable from it (ids), which is what the seen-set walk of     *)
(* isCircular looks at: every object literal and every array built by map  *)
(* is a new object, named here after the request that owns it.             *)

Point(x, y, pressure, timestamp) ==
    Obj(<<"x", "y", "pressure", "timestamp">>, <<x, y, pressure, timestamp>>)

PointIds(owner, n) ==
    <<owner \o ".points">> \o [j \in 1..n |-> owner \o ".points[" \o ToString(j - 1) \o "]"]

\* the five-point stroke as it would be if one array of points, built once,
\* were pushed for every request
DefaultStrokeShared(owner, now) ==
    [pts |-> <<Point(Num(0), Num(0), Num(1), Num(now)),
               Point(Num(50), Num(10), Num(1), Num(now + 100)),
               Point(Num(100), Num(0), Num(1), Num(now + 200)),
               Point(Num(100), Num(20), Num(1), Num(now + 300)),
               Point(Num(0), Num(20), Num(1), Num(now + 400))>>,
     ids |-> PointIds("defaultPoints", 5)]

\* the literal five-point stroke
DefaultStroke(owner, now) ==
    [pts |-> <<Point(Num(0), Num(0), Num(1), Num(now)),
               Point(Num(50), Num(10), Num(1), Num(now + 100)),
               Point(Num(100), Num(0), Num(1), Num(now + 200)),
               Point(Num(100), Num(20), Num(1), Num(now + 300)),
               Point(Num(0), Num(20), Num(1), Num(now + 400))>>,
     ids |-> PointIds(owner, 5)]

\* JSON.parse(data) followed by the Array.isArray test and the map over the
\* points, inside the try: <<>> when any of it throws or the value is no array
ParsedPoints(data, now) ==
    IF ~IsString(data) \/ JSONParseThrows(data.s) THEN <<>>
    ELSE LET vectorData == JSONParse(data.s) IN
         IF ~IsArray(vectorData) THEN <<>>
         ELSE IF \E i \in 1..Len(vectorData.e) : IsNullish(vectorData.e[i]) THEN <<>>
         ELSE [i \in 1..Len(vectorData.e) |->
                  Point(OrElse(Get(vectorData.e[i], "x"), Num((i - 1) * 10)),
                        OrElse(Get(vectorData.e[i], "y"), Num(0)),
                        OrElse(Get(vectorData.e[i], "pressure"), Num(1)),
                        Num(now + (i - 1) * 10))]

StrokeOf(points, owner, now) ==
    IF Len(points) = 0 THEN DefaultStroke(owner, now)
    ELSE [pts |-> points, ids |-> PointIds(owner, Len(points))]

\* identities of the objects a request takes over from the analysis
InheritedIds(origin, geometry) ==
    SelectSeq([i \in 1..Len(geometry.k) |->
                  IF geometry.e[i].t \in {"object", "array"}
                  THEN origin \o "." \o geometry.k[i] ELSE ""],
              LAMBDA id : id # "")

\* the object literal pushed on signatureRequests for a field or a zone at
\* position index of its list
Request(stroke, source, origin, index, owner) ==
    LET position == Get(source, "position")
        geometry == Obj(<<"x", "y", "width", "height", "page">>,
                        <<OrElse(GetOpt(position, "x"), Num(100 + index * 150)),
                          OrElse(GetOpt(position, "y"), Num(200)),
                          OrElse(GetOpt(position, "width"), Num(120)),
                          OrElse(GetOpt(position, "height"), Num(40)),
                          OrElse(Get(source, "page"), Num(0))>>)
    IN [v |-> Obj(<<"points", "x", "y", "width", "height", "color", "page">>,
                  <<Arr(stroke.pts), Get(geometry, "x"), Get(geometry, "y"),
                    Get(geometry, "width"), Get(geometry, "height"),
                    Str("#000000"), Get(geometry, "page")>>),
        ids |-> <<owner>> \o stroke.ids \o InheritedIds(origin, geometry)]

Owner(requests) == "req" \o ToString(Len(requests))

\* "Add signatures from filled fields"
RECURSIVE FieldRequests(_, _, _, _, _)
FieldRequests(filledFields, signatures, i, now, requests) ==
    IF i > Len(filledFields) THEN requests
    ELSE LET field == filledFields[i]
             id == Get(field, "id")
         IN IF IsSignedField(field) /\ HasSignatureId(signatures, id)
            THEN LET signature == signatures[CHOOSE j \in 1..Len(signatures) :
                                      /\ StrictEq(signatures[j].id, id)
                                      /\ \A m \in 1..(j - 1) : ~StrictEq(signatures[m].id, id)]
                     points == IF signature.type = Str("drawing") /\ Truthy(signature.data)
                               THEN ParsedPoints(signature.data, now)
                               ELSE <<>>
                     owner == Owner(requests)
                 IN FieldRequests(filledFields, signatures, i + 1, now,
                        Append(requests,
                               Request(StrokeOf(points, owner, now), field,
                                       "filledFields[" \o ToString(i - 1) \o "]",
                                       i - 1, owner)))
            ELSE FieldRequests(filledFields, signatures, i + 1, now, requests)

\* req.x === sig.position?.x && req.y === sig.position?.y for some request
HasRequestAt(requests, position) ==
    \E j \in 1..Len(requests) :
        /\ StrictEq(Get(requests[j].v, "x"), GetOpt(position, "x"))
        /\ StrictEq(Get(requests[j].v, "y"), GetOpt(position, "y"))

SignatureKey(sig) == "signature_" \o TemplateString(Get(sig, "id"))

\* "Also add signatures from userData (from analysis.signatures)": the
\* requests after the loop, and whether signatureValue.substring threw on a
\* value that is no string (which leaves the try around the backend call)
RECURSIVE ZoneRequests(_, _, _, _, _)
ZoneRequests(zones, userData, i, now, requests) ==
    IF i > Len(zones.e) THEN [reqs |-> requests, threw |-> FALSE]
    ELSE LET sig == zones.e[i]
             signatureValue == Get(userData, SignatureKey(sig))
             owner == Owner(requests)
         IN IF ~HasRequestAt(requests, Get(sig, "position")) /\ Truthy(signatureValue)
            THEN IF ~IsString(signatureValue)
                 THEN [reqs |-> requests, threw |-> TRUE]
                 ELSE ZoneRequests(zones, userData, i + 1, now,
                          Append(requests,
                                 Request(StrokeOf(ParsedPoints(signatureValue, now),
                                                  owner, now),
                                         sig, "signatures[" \o ToString(i - 1) \o "]",
                                         i - 1, owner)))
            ELSE ZoneRequests(zones, userData, i + 1, now, requests)

\* "If no signatures from fields, add default signatures"
DefaultRequest(now) ==
    [v |-> Obj(<<"points", "x", "y", "width", "height", "color", "page">>,
               <<Arr(DefaultStroke("req0", now).pts), Num(100), Num(200), Num(120),
                 Num(40), Str("#000000"), Num(0)>>),
     ids |-> <<"req0">> \o DefaultStroke("req0", now).ids]

BuildRequests(filledFields, signatures, zones, userData, now) ==
    LET fromFields == FieldRequests(filledFields, signatures, 1, now, <<>>)
        withZones == ZoneRequests(zones, userData, 1, now, fromFields).reqs
    IN IF Len(withZones) = 0 THEN <<DefaultRequest(now)>> ELSE withZones

BuildRequestsThrows(filledFields, signatures, zones, userData, now) ==
    ZoneRequests(zones, userData, 1, now,
                 FieldRequests(filledFields, signatures, 1, now, <<>>)).threw

\* the seen-set walk over signatureRequests: an object met twice
isCircular(requests) ==
    LET all == <<"signatureRequests">> \o
               Concat([i \in 1..Len(requests) |-> requests[i].ids])
    IN \E i, j \in 1..Len(all) : i < j /\ all[i] = all[j]

\* the value appended to the form data under "signatures"
SignaturesJson(requests) ==
    IF isCircular(requests) THEN JSONStringify(Arr(<<>>))
    ELSE JSONStringify(Arr([i \in 1..Len(requests) |-> requests[i].v]))

----------------------------------------------------------------------------
(* The local LLM provider: reading its response *)

\* aiResponse.match(/\{[\s\S]*\}/): the span from the first "{" to the last
\* "}" after it, "" when there is none (a match is never empty)
MatchBraces(aiResponse) ==
    LET opens == PositionsOf(aiResponse, "{")
        closes == PositionsOf(aiResponse, "}")
    IN IF opens # <<>> /\ closes # <<>> /\ opens[1] < closes[Len(closes)]
       THEN SubSeq(aiResponse, opens[1], closes[Len(closes)])
       ELSE ""

Returned(v) == [thrown |-> FALSE, value |-> v]
Thrown == [thrown |-> TRUE, value |-> Undefined]

\* the catch blocks as they would be if they analysed an empty excerpt
OnProviderErrorOfNoContent(content, fileType) ==
    Returned(getFallbackAnalysis("", fileType))

\* the catch blocks as they would be if they threw the error on
OnProviderErrorRethrown(content, fileType) == Thrown

\* the catch blocks of analyzeContentWithAI
OnProviderError(content, fileType) == Returned(getFallbackAnalysis(content, fileType))

\* the inner try of analyzeContentWithAI: "Try to extract JSON from the response"
ParseResponse(aiResponse, content, fileType) ==
    LET jsonMatch == MatchBraces(aiResponse) IN
    IF jsonMatch # "" /\ ~JSONParseThrows(jsonMatch)
    THEN Returned(JSONParse(jsonMatch))
    ELSE OnProviderError(content, fileType)

\* analyzeContentWithAI from "const data = await response.json()" on;
\* data.response of a null body and aiResponse.substring of a value that is
\* no string throw a TypeError, caught by the outer catch
AnalysisFromData(data, content, fileType) ==
    IF IsNullish(data) \/ ~IsString(Get(data, "response"))
    THEN OnProviderError(content, fileType)
    ELSE ParseResponse(Get(data, "response").s, content, fileType)

\* where the provider call stopped, for a body that was read
StageOfData(data) ==
    IF IsNullish(data) \/ ~IsString(Get(data, "response")) THEN "noResponseString"
    ELSE IF MatchBraces(Get(data, "response").s) = "" THEN "noJsonSpan"
    ELSE IF JSONParseThrows(MatchBraces(Get(data, "response").s)) THEN "jsonSyntax"
    ELSE "parsed"

ProviderFailures ==
    {"networkError", "timeout", "badStatus", "bodyNotJson", "noResponseString",
     "noJsonSpan", "jsonSyntax"}

\* analyzeContentWithAI with the fetch made before the test of llmUrl
FetchesOfCallUnconditional(configured) == 1

\* the calls of fetchWithTimeout that analyzeContentWithAI makes: none when
\* it returns at `if (!llmUrl)`, else the one of its try block, which is in
\* no loop
FetchesOfCall(configured) == IF configured THEN 1 ELSE 0

\* the calls of getFallbackAnalysis on the way that ends at stage: the one
\* of `if (!llmUrl)`, the one of the inner catch (which returns, so the outer
\* catch does not run) or the one of the outer catch; none when the response
\* is parsed
FallbackCalls(stage) == IF stage = "parsed" THEN 0 ELSE 1

----------------------------------------------------------------------------
(* analyzeDocument after the provider chain *)

\* the DocumentAnalysis literal; processingTime is not modelled (0)
MakeAnalysis(aiAnalysis, fileUri, fileType, content, size) ==
    Obj(<<"documentInfo", "formFields", "questions", "signatures", "processingTime",
          "confidence", "content", "summary", "keyInsights", "riskAssessment">>,
        <<Obj(<<"name", "size", "pages", "type", "language", "category">>,
              <<OrElse(Str(LastSegment(fileUri)), Str("document")), Num(size), Num(1),
                Str(ToUpperCase(fileType)), Get(aiAnalysis, "language"),
                Get(aiAnalysis, "category")>>),
          OrElse(Get(aiAnalysis, "formFields"), Arr(<<>>)),
          OrElse(Get(aiAnalysis, "questions"), Arr(<<>>)),
          OrElse(Get(aiAnalysis, "signatures"), Arr(<<>>)),
          Num(0), Num(85), Str(content), Get(aiAnalysis, "summary"),
          Get(aiAnalysis, "keyInsights"), Get(aiAnalysis, "riskAssessment")>>)

\* console.log('Detected fields:', analysis.formFields.map(f => ({ label:
\* f.label, type: f.type }))) throws when formFields is no array or holds null
LogDetectedFieldsThrows(analysis) ==
    LET formFields == Get(analysis, "formFields") IN
    \/ ~IsArray(formFields)
    \/ \E i \in 1..Len(formFields.e) : IsNullish(formFields.e[i])

----------------------------------------------------------------------------
(* Inputs and the environment's answers *)

\* text that mammoth extracts from the DOCX file
DocxContents ==
    {"Name: _____\nSignature: _____\nDo you agree?",
     "Signature\n[ ] I accept",
     ""}

PdfContent == "PDF document content - form fields and signatures detected"

FieldAt(id, type, label, x, y) ==
    Obj(<<"id", "type", "label", "required", "position", "page">>,
        <<Str(id), Str(type), Str(label), Bool(TRUE), Position(x, y, 200, 30), Num(1)>>)

ZoneAt(id, label, x, y) ==
    Obj(<<"id", "label", "required", "position", "page">>,
        <<Str(id), Str(label), Bool(TRUE), Position(x, y, 150, 50), Num(1)>>)

Members(formFields, questions, signatures) ==
    Obj(<<"language", "formFields", "questions", "signatures">>,
        <<Str("en"), formFields, questions, signatures>>)

\* JSON objects a model may answer with, well formed or not
ProviderObjects ==
    {Members(Arr(<<FieldAt("1", "signature", "Signature", 100, 150),
                   FieldAt("2", "text", "Full Name", 100, 200)>>),
             Arr(<<>>),
             Arr(<<ZoneAt("1", "Signature", 100, 300)>>)),
     Members(Arr(<<FieldAt("f1", "signature", "Signature", 0, 0)>>),
             Arr(<<>>),
             Arr(<<ZoneAt("1", "Signature", 0, 0)>>)),
     Members(Arr(<<FieldAt("f1", "signature", "Signature", 50, 60)>>),
             Arr(<<>>),
             Arr(<<ZoneAt("1", "Signature", 50, 60)>>)),
     Members(Arr(<<>>), Arr(<<>>), Arr(<<>>)),
     Obj(<<"language">>, <<Str("en")>>),
     Members(Null, Null, Null),
     Members(Arr(<<>>), Str("none"), Arr(<<>>)),
     Members(Str("none"), Arr(<<>>), Arr(<<>>)),
     Members(Arr(<<>>), Arr(<<>>), Obj(<<"id">>, <<Str("1")>>)),
     Members(Arr(<<Obj(<<"id", "type">>, <<Str("1"), Str("text")>>)>>), Arr(<<>>), Arr(<<>>)),
     Members(Arr(<<>>),
             Arr(<<Obj(<<"id", "type">>, <<Str("q1"), Str("yes_no")>>)>>),
             Arr(<<>>))}

\* a "," put before every "}" and "]" that closes a non-empty object or array
InjectTrailingCommas(text) ==
    LET piece(i) == IF /\ i > 1
                       /\ Char(text, i) \in {"}", "]"}
                       /\ Char(text, i - 1) \notin {"{", "[", ","}
                    THEN "," \o Char(text, i)
                    ELSE Char(text, i)
    IN Concat([i \in 1..Len(text) |-> piece(i)])

\* what a model writes around and into the JSON text of its answer (the
\* Markdown code fence is written with tildes)
Commentary(json) == "Here is the analysis:\n" \o json \o "\nLet me know."
Fenced(json) == "~~~json\n" \o json \o "\n~~~"

\* the well-formed answers with form fields, which are also sent wrapped
\* and with trailing commas
WrappedObjects ==
    {o \in ProviderObjects :
        /\ IsArray(Get(o, "signatures"))
        /\ IsArray(Get(o, "questions"))
        /\ IsArray(Get(o, "formFields"))
        /\ Len(Get(o, "formFields").e) > 0
        /\ \A i \in 1..Len(Get(o, "formFields").e) :
              HasKey(Get(o, "formFields").e[i], "label")}

ResponseTexts ==
    {JSONStringify(o) : o \in ProviderObjects}
    \cup UNION {{Commentary(JSONStringify(o)),
                 Fenced(JSONStringify(o)),
                 InjectTrailingCommas(JSONStringify(o)),
                 Fenced(InjectTrailingCommas(JSONStringify(o)))} : o \in WrappedObjects}
    \cup {"I cannot analyze this document.", "{ formFields: none }", ""}

\* what response.json() resolves to
ResponseBodies ==
    {Obj(<<"response">>, <<Str(text)>>) : text \in ResponseTexts}
    \cup {Obj(<<"error">>, <<Str("model not found")>>),
          Obj(<<"response">>, <<Num(5)>>),
          Null}

\* a drawn signature of n points as the signature pad stores it
RECURSIVE PointList(_)
PointList(n) ==
    IF n = 0 THEN <<>>
    ELSE Append(PointList(n - 1), Obj(<<"x", "y">>, <<Num(n), Num(2 * n)>>))

DrawnSignature(n) == JSONStringify(Arr(PointList(n)))

\* a stroke that touches the left and the top edge of the pad
EdgeSignature ==
    JSONStringify(Arr(<<Obj(<<"x", "y">>, <<Num(5), Num(0)>>),
                        Obj(<<"x", "y">>, <<Num(0), Num(7)>>)>>))

\* the userData of the screen: keys are lower-cased labels and
\* "signature_<zone id>"; "signatures" is the list a caller may pass
UserDatas ==
    {Obj(<<>>, <<>>),
     Obj(<<"signature_1">>, <<Str("test-signature-data")>>),
     Obj(<<"signature_1">>, <<Str(DrawnSignature(0))>>),
     Obj(<<"signature_1">>, <<Str(EdgeSignature)>>),
     Obj(<<"full_name">>, <<Str("Dana Levi")>>),
     Obj(<<"signatures">>,
         <<Arr(<<Obj(<<"id", "name", "type", "data">>,
                     <<Str("s1"), Str("Me"), Str("drawing"), Str(DrawnSignature(1))>>)>>)>>),
     Obj(<<"signatures">>,
         <<Arr(<<Obj(<<"id", "name", "type", "data">>,
                     <<Str("s1"), Str("Me"), Str("drawing"), Num(7)>>)>>)>>)}
    \cup {Obj(<<"signature", "signature_1">>,
              <<Str(DrawnSignature(n)), Str(DrawnSignature(n))>>) : n \in 1..MaxPoints}

\* the calls of processDocument: a PDF with each user data, a DOCX of each
\* text with the user data that its heuristic fields can take up
Calls ==
    {[fileType |-> "pdf", docText |-> PdfContent, userData |-> u] : u \in UserDatas}
    \cup {[fileType |-> "docx", docText |-> c, userData |-> u] :
             c \in DocxContents,
             u \in {v \in UserDatas : v.k \in {<<>>, <<"full_name">>, <<"signatures">>}}}

\* bodies of a non-2xx answer of the signing backend
BackendErrorTexts ==
    {"Internal server error",
     "Error: WinAnsi cannot encode \"ל\" (0x05dc)",
     "Error: WinAnsi cannot encode \"ש\" (0x05e9)"}

documentDirectory == "file:///data/documents/"

\* the sequences of at most MaxFields elements of a set
ListsOf(S) == UNION {[1..n -> S] : n \in 0..MaxFields}

\* a FormField as analyzeDocument gives it to the callers of fillFormFields
TypedField(id, type, label) ==
    Obj(<<"id", "type", "label", "required">>,
        <<Str(id), Str(type), Str(label), Bool(FALSE)>>)

\* the fields direct calls of fillFormFields are made with
FormFields ==
    {TypedField("1", "text", "Name"),
     TypedField("2", "email", "Email"),
     TypedField("3", "email", "Email Address"),
     TypedField("4", "text", "Full Name"),
     TypedField("5", "text", "Company Name"),
     Put(TypedField("6", "text", "Favourite colour"), "suggestions",
         StrArr(<<"Blue", "Green">>)),
     Put(TypedField("7", "select", "Plan"), "suggestions", StrArr(<<"Basic">>)),
     Put(TypedField("8", "radio", "Delivery"), "suggestions", StrArr(<<>>)),
     TypedField("9", "phone", "Phone"),
     TypedField("10", "date", "Date"),
     TypedField("11", "number", "Age"),
     TypedField("12", "signature", "Signature"),
     TypedField("13", "checkbox", "I agree")}

\* the userData of those calls
FillUserDatas ==
    {Obj(<<>>, <<>>),
     Obj(<<"name", "email">>, <<Str("John Doe"), Str("john@example.com")>>),
     Obj(<<"name">>, <<Str("")>>),
     Obj(<<"full_name">>, <<Str("Dana Levi")>>),
     Obj(<<"name", "company_name">>, <<Str("Dana Levi"), Str("Acme")>>),
     Obj(<<"name", "company name">>, <<Str("Dana Levi"), Str("Acme")>>),
     Obj(<<"address">>, <<Str("5 Elm St")>>),
     Obj(<<"age", "plan">>, <<Str("30"), Str("Premium")>>)}

TypedQuestion(id, type, text) ==
    Obj(<<"id", "text", "type">>, <<Str(id), Str(text), Str(type)>>)

\* the questions direct calls of answerQuestions are made with
Questions ==
    {TypedQuestion("1", "yes_no", "Do you agree to the terms?"),
     TypedQuestion("2", "yes_no", "Do you have a criminal conviction?"),
     TypedQuestion("3", "yes_no", "Do you have experience?"),
     Put(TypedQuestion("4", "multiple_choice", "Which plan?"), "options",
         StrArr(<<"Basic", "Premium">>)),
     TypedQuestion("5", "multiple_choice", "Which colour?"),
     TypedQuestion("6", "text", "Why?"),
     TypedQuestion("7", "date", "When?"),
     TypedQuestion("8", "number", "How many?"),
     TypedQuestion("9", "rating", "How good?")}

\* the userData of those calls, with the keys question_<id> of the screen
AnswerUserDatas ==
    {Obj(<<>>, <<>>),
     Obj(<<"question_1">>, <<Str("yes")>>),
     Obj(<<"question_1">>, <<Str("no")>>),
     Obj(<<"question_2", "question_3">>, <<Str("yes"), Str("no")>>),
     Obj(<<"question_4">>, <<Str("Premium")>>)}

ValuedField(id, type, label, required, value) ==
    Obj(<<"id", "type", "label", "required", "value">>,
        <<Str(id), Str(type), Str(label), Bool(required), value>>)

\* the code units of the texts detectLanguage is called with directly: 'A',
\* the first and the last of the Hebrew block (0x0590, 0x05FF) and the units
\* next to them (0x058F, 0x0600), and one of each other script (0x4E2D,
\* 0x3042, 0x30A2, 0xD55C, 0x0416, 0x0E01, 0x0905) and of none (0x0710)
TextUnits ==
    {65, 1423, 1424, 1535, 1536, 20013, 12354, 12450, 54620, 1046, 3585, 2309,
     1808}

\* the texts of at most MaxUnits code units
Texts == UNION {[1..n -> TextUnits] : n \in 0..MaxUnits}

\* lines of a document: an underscore field, a checkbox, a signature line, a
\* question, a line that is a question and an underscore field, an empty line
DocumentLines ==
    {"Name: _____", "[ ] I accept", "Signature", "Do you agree?",
     "Are you sure? _____", ""}

\* the texts of at most MaxLines lines
Contents ==
    {Concat([i \in 1..Len(lines) |-> IF i = 1 THEN lines[i] ELSE "\n" \o lines[i]]) :
        lines \in UNION {[1..n -> DocumentLines] : n \in 1..MaxLines}}

\* the fields validateForm is called with
ValidatedFields ==
    {ValuedField("1", "email", "Email", TRUE, Str("invalid-email")),
     ValuedField("1", "email", "Email", TRUE, Str("valid@email.com")),
     ValuedField("2", "text", "Name", TRUE, Str("John Doe")),
     ValuedField("2", "text", "Name", TRUE, Str("")),
     ValuedField("3", "text", "Notes", FALSE, Undefined),
     ValuedField("4", "phone", "Phone", FALSE, Str("abc")),
     ValuedField("4", "phone", "Phone", TRUE, Str("+1 (555) 123-4567")),
     Put(ValuedField("5", "text", "Code", FALSE, Str("ab")), "validation",
         Obj(<<"minLength">>, <<Num(3)>>)),
     Put(ValuedField("5", "text", "Code", FALSE, Str("abcd")), "validation",
         Obj(<<"minLength", "maxLength">>, <<Num(3), Num(3)>>)),
     Put(ValuedField("5", "text", "Code", FALSE, Str("")), "validation",
         Obj(<<"minLength">>, <<Num(3)>>))}


\* a document as the screens hand it to addRecentDocument
InputDocument(name, size) ==
    Obj(<<"name", "originalUri", "processedUri", "type", "size",
          "formFieldsCount", "signaturesCount">>,
        <<Str(name \o ".pdf"), Str("file://" \o name \o ".pdf"),
          Str("file://processed-" \o name \o ".pdf"), Str("pdf"), Num(size),
          Num(5), Num(2)>>)

\* document i of an item stored earlier: added i milliseconds before now
StoredDocument(i) == NewDocument(InputDocument("doc" \o ToString(i), 1024), 1000 - i)

\* an item of n documents, the latest first
StoredText(n) == JSONStringify(Arr([i \in 1..n |-> StoredDocument(i)]))

\* what the secure store holds before a call: nothing, a text that is no
\* JSON, or a list; the store outlives the program, and the repository's
\* tests start from lists longer than MAX_RECENT_DOCUMENTS
StoredTexts == {"", "recent"} \cup {StoredText(n) : n \in 0..MaxStored}

\* the original files of the stored documents and of a new one, and the
\* processed file of document 1
AllFiles ==
    [uri \in {"file://doc" \o ToString(i) \o ".pdf" : i \in 1..MaxStored}
               \cup {"file://new.pdf", "file://processed-doc1.pdf"} |-> "exists"]

\* the file systems of the model: all files there, or the original of
\* document 1 or 2 gone or unreadable
FileSystems ==
    {AllFiles}
    \cup {[AllFiles EXCEPT !["file://doc" \o ToString(i) \o ".pdf"] = how] :
             i \in 1..2, how \in {"missing", "error"}}

\* the documents addRecentDocument is called with: a new one, and documents
\* processed again (same name and size as a stored one)
AddedDocuments ==
    {InputDocument("new", 2048), InputDocument("doc1", 1024),
     InputDocument("doc" \o ToString(MAX_RECENT_DOCUMENTS + 1), 1024)}

\* the ids removeRecentDocument is called with: those of documents 1 and 3,
\* the URI the repository's test passes, and one that no document has
RemovedIds == {"999", "997", "file://doc1.pdf", "nonexistent"}

\* which calls of the secure store succeed: all, or all but one
IOOutcomes ==
    {[read |-> TRUE, rewrite |-> TRUE, write |-> TRUE],
     [read |-> FALSE, rewrite |-> TRUE, write |-> TRUE],
     [read |-> TRUE, rewrite |-> FALSE, write |-> TRUE],
     [read |-> TRUE, rewrite |-> TRUE, write |-> FALSE]}

----------------------------------------------------------------------------
(* DocumentProcessorScreen: the userData it builds, and its inputs *)

\* s.replace(/\s+/g, by): every run of white space becomes one by
CollapseWhitespace(s, by) ==
    Concat([i \in 1..Len(s) |->
               IF ~IsSpace(Char(s, i)) THEN Char(s, i)
               ELSE IF i > 1 /\ IsSpace(Char(s, i - 1)) THEN "" ELSE by])

\* field.label.toLowerCase().replace(/\s+/g, '_'): the key under which the
\* screen puts the value typed for a field into userData
UserDataKey(label) == CollapseWhitespace(ToLowerCase(label), "_")

\* "Add field values": the entries of fieldValues whose field has a label,
\* filed under the label's key, from entry i on
RECURSIVE AddFieldValues(_, _, _, _)
AddFieldValues(userData, fieldValues, formFields, i) ==
    IF i > Len(fieldValues.k) THEN userData
    ELSE LET found == {j \in 1..Len(formFields) :
                          StrictEq(Get(formFields[j], "id"), Str(fieldValues.k[i]))}
             field == formFields[CHOOSE j \in found : \A m \in found : j <= m]
         IN IF found # {} /\ Truthy(Get(field, "label"))
            THEN AddFieldValues(Put(userData, UserDataKey(Get(field, "label").s),
                                    fieldValues.e[i]),
                                fieldValues, formFields, i + 1)
            ELSE AddFieldValues(userData, fieldValues, formFields, i + 1)

\* "Add question answers": the answers of the questions of the analysis,
\* under question_<id>
RECURSIVE AddQuestionAnswers(_, _, _, _)
AddQuestionAnswers(userData, questionAnswers, questions, i) ==
    IF i > Len(questionAnswers.k) THEN userData
    ELSE IF \E j \in 1..Len(questions) :
                StrictEq(Get(questions[j], "id"), Str(questionAnswers.k[i]))
    THEN AddQuestionAnswers(Put(userData, "question_" \o questionAnswers.k[i],
                                questionAnswers.e[i]),
                            questionAnswers, questions, i + 1)
    ELSE AddQuestionAnswers(userData, questionAnswers, questions, i + 1)

\* the userData processDocument of the screen calls the service with
ScreenUserData(fieldValues, questionAnswers, formFields, questions, userSignatures) ==
    LET answered == AddQuestionAnswers(
                        AddFieldValues(Obj(<<>>, <<>>), fieldValues, formFields, 1),
                        questionAnswers, questions, 1)
    IN IF Len(userSignatures) > 0
       THEN Put(answered, "signatures", Arr(userSignatures))
       ELSE answered

\* the analyses aiService.analyzeDocument resolves to on the screen
ScreenAnalyses ==
    {[formFields |-> <<>>, questions |-> <<>>],
     [formFields |-> <<TypedField("1", "text", "Name")>>,
      questions |-> <<TypedQuestion("1", "yes_no", "Do you agree to the terms?")>>],
     [formFields |-> <<TypedField("1", "text", "Name"),
                       TypedField("4", "text", "Full Name")>>,
      questions |-> <<>>]}

\* what the user types into a text input
TypedTexts == {"", "Dana Levi"}

\* the item user_signatures of the secure store, parsed; <<>> also stands
\* for a read that rejected or found nothing
StoredSignatures ==
    {<<>>,
     <<Obj(<<"id", "name", "type", "data">>,
           <<Str("s1"), Str("Me"), Str("drawing"), Str(DrawnSignature(1))>>)>>}

----------------------------------------------------------------------------
(* State *)

VARIABLES
    fileUri, fileType, userData, llmUrl, docText, now,   \* the call and its world
    pc,               \* where processDocument is suspended
    content,          \* analyzeDocument: the extracted content
    fetchPending,     \* the provider fetch has not settled
    timerPending,     \* the timeout timer of fetchWithTimeout has not fired
    providerStage,    \* how the provider call ended
    fetches,          \* HTTP requests issued to the provider so far
    fallbacks,        \* calls of getFallbackAnalysis so far
    data,             \* the body response.json() resolved to
    aiAnalysis,       \* what analyzeContentWithAI returned
    analyzeStatus,    \* the promise of analyzeDocument
    analysis, filledFields, answeredQuestions,
    signatures,       \* SignatureData list
    upload,           \* the form data sent to the backend
    backend,          \* how the backend call ended
    fileIO,           \* how the reads of the file system ended
    result,           \* the promise of processDocument
    svcCall,          \* a call of fillFormFields, answerQuestions or validateForm
    svcResult,        \* what that call returned
    stored,           \* the item recent_documents of the secure store
    files,            \* the file system, as getInfoAsync sees it
    recentCall,       \* a call of the recent documents service
    otherCall,        \* a second call of it, made while the first is under way
    screen            \* the state of DocumentProcessorScreen

inputs == <<fileUri, fileType, userData, llmUrl, docText, now>>
race == <<fetchPending, timerPending>>
provider == <<content, providerStage, aiAnalysis, fetches, fallbacks>>
analyzed == <<analyzeStatus, analysis>>
reconciled == <<filledFields, answeredQuestions, signatures, upload>>
direct == <<svcCall, svcResult>>
recent == <<stored, files, recentCall, otherCall>>
pipeline == <<inputs, pc, race, data, provider, analyzed, reconciled, backend, fileIO, result>>
vars == <<pipeline, direct, recent, screen>>

NoUpload == [sent |-> FALSE, document |-> "", signatures |-> ""]

NoBackend == [outcome |-> "none", text |-> ""]

Pending == [status |-> "pending", message |-> "", success |-> FALSE,
            signedDocumentUri |-> "", errors |-> <<>>, warnings |-> <<>>]

NoCall == [op |-> "none", list |-> <<>>, userData |-> Obj(<<>>, <<>>)]

NoValidation == [isValid |-> TRUE, errors |-> <<>>, warnings |-> <<>>,
                 suggestions |-> <<>>]

NoResult == [list |-> <<>>, validation |-> NoValidation]

NoRecentCall ==
    [op |-> "none", pc |-> "none", document |-> Undefined, documentId |-> "",
     io |-> [read |-> TRUE, rewrite |-> TRUE, write |-> TRUE],
     before |-> "", recentDocs |-> <<>>]

\* the state when processDocument is called
ProcessInit ==
    /\ \E call \in Calls :
         /\ fileType = call.fileType
         /\ docText = call.docText
         /\ userData = call.userData
    /\ fileUri = "file:///docs/form." \o fileType
    /\ llmUrl \in BOOLEAN
    /\ now = 1000
    /\ pc = "start"
    /\ content = ""
    /\ fetchPending = FALSE
    /\ timerPending = FALSE
    /\ providerStage = "none"
    /\ fetches = 0
    /\ fallbacks = 0
    /\ data = Undefined
    /\ aiAnalysis = Undefined
    /\ analyzeStatus = "pending"
    /\ analysis = Undefined
    /\ filledFields = <<>>
    /\ answeredQuestions = <<>>
    /\ signatures = <<>>
    /\ upload = NoUpload
    /\ backend = NoBackend
    /\ fileIO = [extract |-> "none", info |-> "none", fallback |-> "none"]
    /\ result = Pending

\* no direct call is made
DirectInit == svcCall = NoCall /\ svcResult = NoResult

\* the recent documents service is not called
RecentIdle ==
    /\ stored = ""
    /\ files = AllFiles
    /\ recentCall = NoRecentCall
    /\ otherCall = NoRecentCall

\* the useState initial values of DocumentProcessorScreen; at is where its
\* handlers are suspended
ScreenInit ==
    screen = [isAnalyzing |-> TRUE, isProcessing |-> FALSE, currentStep |-> "analyzing",
              at |-> "mount", formFields |-> <<>>, questions |-> <<>>,
              fieldValues |-> Obj(<<>>, <<>>), questionAnswers |-> Obj(<<>>, <<>>),
              userData |-> Obj(<<>>, <<>>)]

Init == ProcessInit /\ DirectInit /\ RecentIdle /\ ScreenInit

----------------------------------------------------------------------------
(* processDocument, one action for each stretch between two awaits *)

\* the catch of processDocument
Rejected ==
    [Pending EXCEPT !.status = "rejected",
                    !.message = "Failed to process " \o ToUpperCase(fileType) \o " document"]

\* the return statement of processDocument
Resolved(signedDocumentUri) ==
    [status |-> "resolved", message |-> "", success |-> TRUE,
     signedDocumentUri |-> signedDocumentUri, errors |-> <<>>, warnings |-> <<>>]

\* analyzeDocument throws 'Failed to analyze ...', which processDocument
\* catches and throws on as 'Failed to process ...'
AnalyzeRejects ==
    /\ analyzeStatus' = "rejected"
    /\ pc' = "rejected"
    /\ result' = Rejected

\* analyzeContentWithAI is over with r; analyzeDocument goes on to getInfoAsync
AfterProvider(r, stage) ==
    /\ providerStage' = stage
    /\ fallbacks' = fallbacks + FallbackCalls(stage)
    /\ IF r.thrown
       THEN AnalyzeRejects /\ UNCHANGED aiAnalysis
       ELSE /\ aiAnalysis' = r.value
            /\ pc' = "info"
            /\ UNCHANGED <<analyzeStatus, result>>

\* analyzeContentWithAI up to its first await
CallProvider(c) ==
    /\ content' = c
    /\ fetches' = fetches + FetchesOfCall(llmUrl)
    /\ IF ~llmUrl
       THEN /\ AfterProvider(Returned(getFallbackAnalysis(c, fileType)), "notConfigured")
            /\ UNCHANGED race
       ELSE /\ pc' = "race"
            /\ fetchPending' = TRUE
            /\ timerPending' = TRUE
            /\ providerStage' = "pending"
            /\ UNCHANGED <<aiAnalysis, fallbacks, analyzeStatus, result>>

\* processDocument is called; analyzeDocument starts
Start ==
    /\ pc = "start"
    /\ IF fileType = "docx"
       THEN /\ pc' = "extract"
            /\ UNCHANGED <<race, provider, analyzeStatus, result>>
       ELSE CallProvider(PdfContent)
    /\ UNCHANGED <<direct, recent, screen, inputs, data, analysis, reconciled, backend, fileIO>>

\* extractDocxContent settles
ExtractDocx ==
    /\ pc = "extract"
    /\ \E ok \in BOOLEAN :
         IF ok
         THEN /\ CallProvider(docText)
              /\ fileIO' = [fileIO EXCEPT !.extract = "ok"]
         ELSE /\ AnalyzeRejects
              /\ fileIO' = [fileIO EXCEPT !.extract = "failed"]
              /\ UNCHANGED <<race, provider>>
    /\ UNCHANGED <<direct, recent, screen, inputs, data, analysis, reconciled, backend>>

\* a race that whichever promise settles decides, also after analyzeContentWithAI
\* has gone on
RaceIsOpenUntilInfo(at) == at \in {"race", "info"}

\* Promise.race is still pending: neither promise has settled since
\* analyzeContentWithAI began to await it
RaceIsOpen(at) == at = "race"

\* the fetch of fetchWithTimeout settles; it decides the race only if the
\* timer has not
FetchSettles ==
    /\ fetchPending
    /\ fetchPending' = FALSE
    /\ \E outcome \in {"networkError", "badStatus", "ok"} :
         IF RaceIsOpen(pc)
         THEN IF outcome = "ok"
              THEN /\ pc' = "body"
                   /\ UNCHANGED <<provider, analyzeStatus, result>>
              ELSE /\ AfterProvider(OnProviderError(content, fileType), outcome)
                   /\ UNCHANGED <<content, fetches>>
         ELSE UNCHANGED <<pc, provider, analyzeStatus, result>>
    /\ UNCHANGED <<direct, recent, screen, inputs, data, timerPending, analysis, reconciled, backend, fileIO>>

\* the timer of fetchWithTimeout fires
TimerFires ==
    /\ timerPending
    /\ timerPending' = FALSE
    /\ IF RaceIsOpen(pc)
       THEN /\ AfterProvider(OnProviderError(content, fileType), "timeout")
            /\ UNCHANGED <<content, fetches>>
       ELSE UNCHANGED <<pc, provider, analyzeStatus, result>>
    /\ UNCHANGED <<direct, recent, screen, inputs, data, fetchPending, analysis, reconciled, backend, fileIO>>

\* response.json() settles
ReadBody ==
    /\ pc = "body"
    /\ \/ /\ AfterProvider(OnProviderError(content, fileType), "bodyNotJson")
          /\ UNCHANGED data
       \/ \E d \in ResponseBodies :
            /\ data' = d
            /\ AfterProvider(AnalysisFromData(d, content, fileType), StageOfData(d))
    /\ UNCHANGED <<direct, recent, screen, inputs, race, content, fetches, analysis, reconciled, backend, fileIO>>

\* FileSystem.getInfoAsync settles; analyzeDocument builds its result
GetInfo ==
    /\ pc = "info"
    /\ \E outcome \in {"exists", "missing", "failed"} :
         LET a == MakeAnalysis(aiAnalysis, fileUri, fileType, content,
                               IF outcome = "exists" THEN 2048 ELSE 0)
         IN /\ fileIO' = [fileIO EXCEPT !.info = outcome]
            /\ IF outcome = "failed" \/ LogDetectedFieldsThrows(a)
               THEN AnalyzeRejects /\ UNCHANGED analysis
               ELSE /\ analysis' = a
                    /\ analyzeStatus' = "resolved"
                    /\ pc' = "analyzed"
                    /\ UNCHANGED result
    /\ UNCHANGED <<direct, recent, screen, inputs, data, race, provider, reconciled, backend>>

\* from the return of analyzeDocument to the fetch of the backend
Reconcile ==
    /\ pc = "analyzed"
    /\ LET formFields == Get(analysis, "formFields")
           questions == Get(analysis, "questions")
           zones == Get(analysis, "signatures")
           filled == fillFormFields(formFields, userData)
           answered == answerQuestions(questions, userData)
           sigs == BuildSignatures(filled, zones, userData)
           requests == BuildRequests(filled, sigs, zones, userData, now)
       IN IF fillFormFieldsThrows(formFields, userData)
          THEN /\ pc' = "rejected" /\ result' = Rejected
               /\ UNCHANGED reconciled
          ELSE IF answerQuestionsThrows(questions, userData)
          THEN /\ pc' = "rejected" /\ result' = Rejected
               /\ filledFields' = filled
               /\ UNCHANGED <<answeredQuestions, signatures, upload>>
          ELSE IF BuildSignaturesThrows(filled, zones, userData)
          THEN /\ pc' = "rejected" /\ result' = Rejected
               /\ filledFields' = filled /\ answeredQuestions' = answered
               /\ UNCHANGED <<signatures, upload>>
          ELSE /\ filledFields' = filled
               /\ answeredQuestions' = answered
               /\ signatures' = sigs
               /\ IF BuildRequestsThrows(filled, sigs, zones, userData, now)
                  THEN /\ pc' = "done"
                       /\ result' = Resolved(fileUri)
                       /\ UNCHANGED upload
                  ELSE /\ pc' = "upload"
                       /\ upload' = [sent |-> TRUE,
                                     document |-> OrElse(Str(LastSegment(fileUri)),
                                                         Str("document." \o fileType)).s,
                                     signatures |-> SignaturesJson(requests)]
                       /\ UNCHANGED result
    /\ analysis' = AnalysisAfterReconcile(analysis, userData)
    /\ UNCHANGED <<direct, recent, screen, inputs, data, race, provider, analyzeStatus, backend, fileIO>>

\* the fetch of the backend settles
BackendSettles ==
    /\ pc = "upload"
    /\ \E outcome \in {"networkError", "ok", "status"} :
         /\ backend' = [backend EXCEPT !.outcome = outcome]
         /\ CASE outcome = "networkError" -> pc' = "done" /\ result' = Resolved(fileUri)
              [] outcome = "ok"           -> pc' = "save" /\ UNCHANGED result
              [] outcome = "status"       -> pc' = "errorBody" /\ UNCHANGED result
    /\ UNCHANGED <<direct, recent, screen, inputs, data, race, provider, analyzed, reconciled, fileIO>>

\* response.arrayBuffer() and saveProcessedDocument settle
SaveProcessed ==
    /\ pc = "save"
    /\ \E ok \in BOOLEAN :
         result' = Resolved(IF ok
                            THEN documentDirectory \o "processed_document_"
                                   \o ToString(now) \o "." \o fileType
                            ELSE fileUri)
    /\ pc' = "done"
    /\ UNCHANGED <<direct, recent, screen, inputs, data, race, provider, analyzed, reconciled, backend, fileIO>>

\* "Check if it's a Hebrew encoding error"
IsHebrewEncodingError(errorText) ==
    Includes(errorText, "WinAnsi cannot encode") /\ Includes(errorText, "ל")

\* response.text() of a non-2xx answer settles
ReadErrorText ==
    /\ pc = "errorBody"
    /\ \/ /\ backend' = [backend EXCEPT !.text = "<unreadable>"]
          /\ pc' = "done"
          /\ result' = Resolved(fileUri)
       \/ \E errorText \in BackendErrorTexts :
            /\ backend' = [backend EXCEPT !.text = errorText]
            /\ IF IsHebrewEncodingError(errorText)
               THEN pc' = "hebrew" /\ UNCHANGED result
               ELSE pc' = "done" /\ result' = Resolved(fileUri)
    /\ UNCHANGED <<direct, recent, screen, inputs, data, race, provider, analyzed, reconciled, fileIO>>

\* createHebrewDocumentFallback settles: its reads and its write went well,
\* or it caught an error and returned the original file
HebrewFallback ==
    /\ pc = "hebrew"
    /\ \E ok \in BOOLEAN :
         /\ fileIO' = [fileIO EXCEPT !.fallback = IF ok THEN "ok" ELSE "failed"]
         /\ result' = Resolved(IF ok
                               THEN documentDirectory \o "hebrew_document_"
                                      \o ToString(now) \o ".txt"
                               ELSE fileUri)
    /\ pc' = "done"
    /\ UNCHANGED <<direct, recent, screen, inputs, data, race, provider, analyzed, reconciled, backend>>

Next ==
    \/ Start
    \/ ExtractDocx
    \/ FetchSettles
    \/ TimerFires
    \/ ReadBody
    \/ GetInfo
    \/ Reconcile
    \/ BackendSettles
    \/ SaveProcessed
    \/ ReadErrorText
    \/ HebrewFallback

Spec == Init /\ [][Next]_vars

----------------------------------------------------------------------------
(* Direct calls of the service, as the form screen and the tests make them *)

\* fillFormFields(fields, userData)
FillFormFieldsCall ==
    /\ svcCall.op = "none"
    /\ \E fields \in ListsOf(FormFields) : \E u \in FillUserDatas :
         /\ svcCall' = [op |-> "fillFormFields", list |-> fields, userData |-> u]
         /\ svcResult' = [list |-> fillFormFields(Arr(fields), u),
                          validation |-> NoValidation]
    /\ UNCHANGED <<pipeline, recent, screen>>

\* answerQuestions(questions, userData)
AnswerQuestionsCall ==
    /\ svcCall.op = "none"
    /\ \E questions \in ListsOf(Questions) : \E u \in AnswerUserDatas :
         /\ svcCall' = [op |-> "answerQuestions", list |-> questions, userData |-> u]
         /\ svcResult' = [list |-> answerQuestions(Arr(questions), u),
                          validation |-> NoValidation]
    /\ UNCHANGED <<pipeline, recent, screen>>

\* validateForm(fields)
ValidateFormCall ==
    /\ svcCall.op = "none"
    /\ \E fields \in ListsOf(ValidatedFields) :
         /\ svcCall' = [op |-> "validateForm", list |-> fields,
                        userData |-> Obj(<<>>, <<>>)]
         /\ svcResult' = [list |-> <<>>, validation |-> validateForm(fields)]
    /\ UNCHANGED <<pipeline, recent, screen>>

\* processDocument is not running: one of its initial states
ProcessIdle ==
    /\ ProcessInit
    /\ fileType = "pdf"
    /\ userData = Obj(<<>>, <<>>)
    /\ llmUrl = FALSE

\* the service before any document is processed
ServiceInit == ProcessIdle /\ DirectInit /\ RecentIdle /\ ScreenInit

\* detectLanguage(text), as getFallbackAnalysis calls it
DetectLanguageCall ==
    /\ svcCall.op = "none"
    /\ \E units \in Texts :
         /\ svcCall' = [op |-> "detectLanguage", list |-> units,
                        userData |-> Obj(<<>>, <<>>)]
         /\ svcResult' = [list |-> <<Str(detectLanguageOfUnits(units))>>,
                          validation |-> NoValidation]
    /\ UNCHANGED <<pipeline, recent, screen>>

\* getFallbackAnalysis(content, 'docx'): the heuristic analysis
FallbackAnalysisCall ==
    /\ svcCall.op = "none"
    /\ \E text \in Contents :
         /\ svcCall' = [op |-> "getFallbackAnalysis", list |-> <<Str(text)>>,
                        userData |-> Obj(<<>>, <<>>)]
         /\ svcResult' = [list |-> <<getFallbackAnalysis(text, "docx")>>,
                          validation |-> NoValidation]
    /\ UNCHANGED <<pipeline, recent, screen>>

ServiceNext ==
    \/ FillFormFieldsCall
    \/ AnswerQuestionsCall
    \/ ValidateFormCall
    \/ DetectLanguageCall
    \/ FallbackAnalysisCall

ServiceSpec == ServiceInit /\ [][ServiceNext]_vars

----------------------------------------------------------------------------
(* Calls of the recent documents service *)

\* addRecentDocument(document), up to the return of getRecentDocuments
AddRecentDocumentCall ==
    /\ recentCall.pc = "none"
    /\ \E document \in AddedDocuments : \E io \in IOOutcomes :
         LET got == getRecentDocuments(stored, files, io) IN
         /\ recentCall' = [op |-> "add", pc |-> "read", document |-> document,
                           documentId |-> "", io |-> io, before |-> stored,
                           recentDocs |-> got.docs]
         /\ stored' = got.stored
    /\ UNCHANGED <<pipeline, direct, files, otherCall, screen>>

\* removeRecentDocument(documentId), up to the return of getRecentDocuments
RemoveRecentDocumentCall ==
    /\ recentCall.pc = "none"
    /\ \E documentId \in RemovedIds : \E io \in IOOutcomes :
         LET got == getRecentDocuments(stored, files, io) IN
         /\ recentCall' = [op |-> "remove", pc |-> "read", document |-> Undefined,
                           documentId |-> documentId, io |-> io, before |-> stored,
                           recentDocs |-> got.docs]
         /\ stored' = got.stored
    /\ UNCHANGED <<pipeline, direct, files, otherCall, screen>>

\* the rest of either method: setItemAsync, whose rejection the catch of the
\* method swallows
RecentWrite ==
    /\ recentCall.pc = "read"
    /\ LET docs == IF recentCall.op = "add"
                   THEN addRecentDocument(recentCall.document, recentCall.recentDocs, now)
                   ELSE removeRecentDocument(recentCall.documentId, recentCall.recentDocs)
       IN stored' = IF recentCall.io.write THEN JSONStringify(Arr(docs)) ELSE stored
    /\ recentCall' = [recentCall EXCEPT !.pc = "done"]
    /\ UNCHANGED <<pipeline, direct, files, otherCall, screen>>

RecentInit ==
    /\ ProcessIdle
    /\ DirectInit
    /\ stored \in StoredTexts
    /\ files \in FileSystems
    /\ recentCall = NoRecentCall
    /\ otherCall = NoRecentCall
    /\ ScreenInit

RecentNext ==
    \/ AddRecentDocumentCall
    \/ RemoveRecentDocumentCall
    \/ RecentWrite

RecentSpec == RecentInit /\ [][RecentNext]_vars

\* a second addRecentDocument(document), called at any moment of the first
\* one or after it, up to the return of its getRecentDocuments
OtherAddRecentDocumentCall ==
    /\ recentCall.pc # "none"
    /\ otherCall.pc = "none"
    /\ \E document \in AddedDocuments : \E io \in IOOutcomes :
         LET got == getRecentDocuments(stored, files, io) IN
         /\ otherCall' = [op |-> "add", pc |-> "read", document |-> document,
                          documentId |-> "", io |-> io, before |-> stored,
                          recentDocs |-> got.docs]
         /\ stored' = got.stored
    /\ UNCHANGED <<pipeline, direct, files, recentCall, screen>>

\* the rest of the second call: setItemAsync, a millisecond after the
\* first call or within the same one
OtherRecentWrite ==
    /\ otherCall.pc = "read"
    /\ \E later \in 0..1 :
         LET docs == addRecentDocument(otherCall.document, otherCall.recentDocs,
                                       now + later)
         IN stored' = IF otherCall.io.write THEN JSONStringify(Arr(docs)) ELSE stored
    /\ otherCall' = [otherCall EXCEPT !.pc = "done"]
    /\ UNCHANGED <<pipeline, direct, files, recentCall, screen>>

\* the stores two adds start from: lists of fewer than 9 and of 9 documents
OverlapInit ==
    /\ ProcessIdle
    /\ DirectInit
    /\ ScreenInit
    /\ stored \in {StoredText(n) : n \in {0, 2, MAX_RECENT_DOCUMENTS - 2,
                                          MAX_RECENT_DOCUMENTS - 1}}
    /\ files = AllFiles
    /\ recentCall = NoRecentCall
    /\ otherCall = NoRecentCall

OverlapNext ==
    \/ AddRecentDocumentCall
    \/ RecentWrite
    \/ OtherAddRecentDocumentCall
    \/ OtherRecentWrite

OverlapSpec == OverlapInit /\ [][OverlapNext]_vars

----------------------------------------------------------------------------
(* DocumentProcessorScreen: the steps of the screen and its two handlers *)

\* the effect on [params.uri]: analyzeDocument up to its await, when the
\* screen was opened with a document
Mount ==
    /\ screen.at = "mount"
    /\ \E hasUri \in BOOLEAN :
         screen' = [screen EXCEPT !.isAnalyzing = TRUE,
                                  !.at = IF hasUri THEN "analyzeDocument" ELSE "idle"]
    /\ UNCHANGED <<pipeline, direct, recent>>

\* aiService.analyzeDocument resolved: the rest of the try, and the finally
AnalysisArrives ==
    /\ screen.at = "analyzeDocument"
    /\ \E documentAnalysis \in ScreenAnalyses :
         screen' = [screen EXCEPT !.formFields = documentAnalysis.formFields,
                                  !.questions = documentAnalysis.questions,
                                  !.currentStep = "reviewing",
                                  !.isAnalyzing = FALSE,
                                  !.at = "idle"]
    /\ UNCHANGED <<pipeline, direct, recent>>

\* aiService.analyzeDocument rejected: the catch (an alert), and the finally
AnalysisFails ==
    /\ screen.at = "analyzeDocument"
    /\ screen' = [screen EXCEPT !.isAnalyzing = FALSE, !.at = "idle"]
    /\ UNCHANGED <<pipeline, direct, recent>>

\* the button of the reviewing step
ContinueToFill ==
    /\ screen.currentStep = "reviewing"
    /\ ~screen.isProcessing
    /\ screen' = [screen EXCEPT !.currentStep = "filling"]
    /\ UNCHANGED <<pipeline, direct, recent>>

\* onChangeText of the input of a field of the filling step
ChangeFieldValue ==
    /\ screen.currentStep = "filling"
    /\ \E i \in 1..Len(screen.formFields) : \E text \in TypedTexts :
         screen' = [screen EXCEPT !.fieldValues =
                        Put(@, Get(screen.formFields[i], "id").s, Str(text))]
    /\ UNCHANGED <<pipeline, direct, recent>>

\* the yes and no buttons of a question of the filling step
AnswerQuestion ==
    /\ screen.currentStep = "filling"
    /\ \E i \in 1..Len(screen.questions) : \E answer \in {"yes", "no"} :
         screen' = [screen EXCEPT !.questionAnswers =
                        Put(@, Get(screen.questions[i], "id").s, Str(answer))]
    /\ UNCHANGED <<pipeline, direct, recent>>

\* the button of the filling step: processDocument of the screen up to the
\* read of the stored signatures
PressProcess ==
    /\ screen.currentStep = "filling"
    /\ ~screen.isProcessing
    /\ screen' = [screen EXCEPT !.isProcessing = TRUE,
                                !.currentStep = "signing",
                                !.at = "getItemAsync"]
    /\ UNCHANGED <<pipeline, direct, recent>>

\* the read of the signatures settled: userData is built and
\* aiService.processDocument is called
CallProcessDocument ==
    /\ screen.at = "getItemAsync"
    /\ \E userSignatures \in StoredSignatures :
         screen' = [screen EXCEPT !.userData =
                        ScreenUserData(screen.fieldValues, screen.questionAnswers,
                                       screen.formFields, screen.questions,
                                       userSignatures),
                                  !.at = "processDocument"]
    /\ UNCHANGED <<pipeline, direct, recent>>

\* aiService.processDocument resolved: the screen shows the result and adds
\* the document to the recent ones
ProcessingDone ==
    /\ screen.at = "processDocument"
    /\ screen' = [screen EXCEPT !.currentStep = "complete", !.at = "addRecentDocument"]
    /\ UNCHANGED <<pipeline, direct, recent>>

\* aiService.processDocument rejected: the catch (an alert), and the finally
ProcessingFails ==
    /\ screen.at = "processDocument"
    /\ screen' = [screen EXCEPT !.isProcessing = FALSE, !.at = "idle"]
    /\ UNCHANGED <<pipeline, direct, recent>>

\* addRecentDocument settled either way: the finally
SaveSettles ==
    /\ screen.at = "addRecentDocument"
    /\ screen' = [screen EXCEPT !.isProcessing = FALSE, !.at = "idle"]
    /\ UNCHANGED <<pipeline, direct, recent>>

ScreenNext ==
    \/ Mount
    \/ AnalysisArrives
    \/ AnalysisFails
    \/ ContinueToFill
    \/ ChangeFieldValue
    \/ AnswerQuestion
    \/ PressProcess
    \/ CallProcessDocument
    \/ ProcessingDone
    \/ ProcessingFails
    \/ SaveSettles

ScreenSpec == ServiceInit /\ [][ScreenNext]_vars

----------------------------------------------------------------------------
(* Properties *)

AnalysisMembers == {"formFields", "questions", "signatures"}

\* the provider call ended in one of its failure stages
ProviderFailed == providerStage \in ProviderFailures

\* the requests in the "signatures" part of the upload
SentRequests == JSONParse(upload.signatures)

\* C1: analyzeContentWithAI does not throw: when the provider call fails at
\* any stage (fetch rejected, timer first, bad status, unreadable body, no
\* response string, no {...} span, JSON syntax) it returns exactly the
\* heuristic analysis of the same content.  (Looked at where the call ends:
\* analyzeDocument is then at getInfoAsync, or has rejected; content,
\* fileType, providerStage and aiAnalysis do not change afterwards.)
C1_ProviderFailureGivesFallback ==
    (ProviderFailed /\ pc \in {"info", "rejected"}) =>
        aiAnalysis = getFallbackAnalysis(content, fileType)

\* the model answered with text that holds braces but is no JSON, and the
\* heuristic analysis of the (non-empty) content was returned
C1_Witness ==
    /\ providerStage = "jsonSyntax"
    /\ content # ""
    /\ pc = "info"
    /\ aiAnalysis = getFallbackAnalysis(content, fileType)

\* C2: analyzeDocument does not reject because the provider failed; the
\* analysis it returns after a provider failure has formFields, questions
\* and signatures that are arrays.
C2_AnalyzeSurvivesProviderFailure ==
    ProviderFailed =>
        /\ analyzeStatus = "rejected" => fileIO.info = "failed"
        /\ analyzeStatus = "resolved" =>
             \A m \in AnalysisMembers : IsArray(Get(analysis, m))

\* the fetch of the provider was rejected and analyzeDocument resolved
C2_Witness ==
    /\ providerStage = "networkError"
    /\ analyzeStatus = "resolved"
    /\ \A m \in AnalysisMembers : IsArray(Get(analysis, m))

\* C3: when processDocument calls the backend, the "signatures" part of the
\* upload is the JSON text of an array of at least one request; the
\* circular-reference guard never swaps the built list for the empty array.
C3_UploadHoldsARequest ==
    pc = "upload" =>
        LET toks == Lex(upload.signatures)
            parsed == ParseValue(toks, 1)
        IN /\ parsed.ok
           /\ parsed.next = Len(toks) + 1
           /\ IsArray(parsed.v)
           /\ Len(parsed.v.e) >= 1

\* an upload of two requests, both with the five-point stroke
C3_Witness ==
    /\ pc = "upload"
    /\ Len(SentRequests.e) = 2
    /\ \A i \in 1..2 : Len(Get(SentRequests.e[i], "points").e) = 5

\* C4: every analysis analyzeDocument returns has formFields, questions and
\* signatures that are arrays, whatever object the provider answered with.
C4_AnalysisMembersAreArrays ==
    analyzeStatus = "resolved" =>
        \A m \in AnalysisMembers : IsArray(Get(analysis, m))

\* C5: processDocument rejects only when the content of the document could
\* not be extracted.
C5_RejectsOnlyWithoutContent ==
    result.status = "rejected" => fileIO.extract = "failed"

\* the number of the request built for filled field i: signed fields get
\* their requests in order
RequestOfField(i) == Cardinality({j \in 1..i : IsSignedField(filledFields[j])})

\* the value of a filled field is the JSON text of a non-empty array
IsDrawnValue(value) ==
    /\ IsString(value)
    /\ ~JSONParseThrows(value.s)
    /\ IsArray(JSONParse(value.s))
    /\ Len(JSONParse(value.s).e) > 0

\* C6: the request built for a signature field whose value parses as a JSON
\* array of n points has n points with the x and y of the input points.
C6_FieldRequestKeepsDrawnPoints ==
    upload.sent =>
        \A i \in 1..Len(filledFields) :
            LET value == Get(filledFields[i], "value") IN
            IsSignedField(filledFields[i]) /\ IsDrawnValue(value) =>
                LET drawn == JSONParse(value.s).e
                    points == Get(SentRequests.e[RequestOfField(i)], "points").e
                IN /\ Len(points) = Len(drawn)
                   /\ \A j \in 1..Len(drawn) :
                        /\ Get(points[j], "x") = Get(drawn[j], "x")
                        /\ Get(points[j], "y") = Get(drawn[j], "y")

IsSignatureLine(line) ==
    \/ Includes(ToLowerCase(line), "signature")
    \/ Includes(ToLowerCase(line), "חתימה")

FieldsOfKind(fields, type, label) ==
    {i \in 1..Len(fields) :
        Get(fields[i], "type") = Str(type) /\ Get(fields[i], "label") = Str(label)}

ExampleForm == "Name: _____\nSignature: _____\nDo you agree?"

\* C7: in the heuristic analysis every line with a signature keyword gives
\* a form field of type signature, and the three lines 'Name: _____',
\* 'Signature: _____', 'Do you agree?' give exactly one text field 'Name:',
\* one signature field 'Signature:' and one yes/no question.
C7_HeuristicFindsSignatureLines ==
    (providerStage = "notConfigured" \/ ProviderFailed) =>
        LET fields == Get(aiAnalysis, "formFields").e
            questions == Get(aiAnalysis, "questions").e
            lines == Split(content, "\n")
        IN /\ \A n \in 1..Len(lines) :
                IsSignatureLine(lines[n]) =>
                    \E i \in 1..Len(fields) :
                        /\ Get(fields[i], "type") = Str("signature")
                        /\ Get(fields[i], "id") = Str("signature_" \o ToString(n - 1))
           /\ content = ExampleForm =>
                /\ Len(fields) = 2
                /\ Cardinality(FieldsOfKind(fields, "text", "Name:")) = 1
                /\ Cardinality(FieldsOfKind(fields, "signature", "Signature:")) = 1
                /\ Len(questions) = 1
                /\ Get(questions[1], "type") = Str("yes_no")
                /\ Get(questions[1], "text") = Str("Do you agree?")

\* the answer texts made of a well-formed object with trailing commas
\* injected, bare and inside a code fence, each with its object
TrailingCommaAnswers ==
    UNION {{<<InjectTrailingCommas(JSONStringify(o)), o>>,
            <<Fenced(InjectTrailingCommas(JSONStringify(o))), o>>} : o \in WrappedObjects}

\* C8: an answer that is a valid JSON object with trailing commas injected,
\* bare or inside a code fence, is recovered as the original object and not
\* as the heuristic analysis.
C8_TrailingCommasAreRepaired ==
    \A a \in TrailingCommaAnswers :
        data = Obj(<<"response">>, <<Str(a[1])>>) => aiAnalysis = a[2]

\* the backend answered with a status that is not 2xx and a body that is not
\* the Hebrew encoding failure, and processDocument is over
BackendFailedPlainly ==
    /\ pc = "done"
    /\ backend.outcome = "status"
    /\ backend.text \in BackendErrorTexts
    /\ ~IsHebrewEncodingError(backend.text)

\* C9: after a non-2xx answer of the backend without the Hebrew encoding
\* failure, processDocument resolves with success, the original file URI
\* and a non-empty list of warnings.
C9_BackendFailureIsAWarning ==
    BackendFailedPlainly =>
        /\ result.status = "resolved"
        /\ result.success
        /\ result.signedDocumentUri = fileUri
        /\ Len(result.warnings) > 0

\* C10: after a non-OK answer of the backend ("Internal server error"),
\* processDocument rejects with a message that contains 'Backend processing
\* failed'.
C10_BackendFailureRejects ==
    (pc = "done" /\ backend.outcome = "status"
        /\ backend.text = "Internal server error") =>
        /\ result.status = "rejected"
        /\ Includes(result.message, "Backend processing failed")

\* the analysis has a required signature zone for which userData holds no
\* signature: neither under "signature_<id>" nor in a "signatures" list
RequiredZoneUnsigned ==
    /\ analyzeStatus = "resolved"
    /\ IsArray(Get(analysis, "signatures"))
    /\ ~Truthy(Get(userData, "signatures"))
    /\ \E i \in 1..Len(Get(analysis, "signatures").e) :
         LET zone == Get(analysis, "signatures").e[i] IN
         /\ ~IsNullish(zone)
         /\ Get(zone, "required") = Bool(TRUE)
         /\ ~Truthy(Get(userData, SignatureKey(zone)))

\* C11: when the analysis has a required signature zone and the user data
\* supplies no signature for it, processDocument rejects with 'Missing
\* required signatures'.
C11_MissingRequiredSignatureRejects ==
    (RequiredZoneUnsigned /\ pc \in {"done", "rejected"}) =>
        /\ result.status = "rejected"
        /\ Includes(result.message, "Missing required signatures")

\* C12: after a 500 of the backend whose body holds 'WinAnsi cannot encode'
\* and a Hebrew character, processDocument resolves with a signedDocumentUri
\* that names a newly written plain-text document and is not the original
\* file URI (the reads and the write of the fallback going well).
C12_HebrewFailureGivesTextDocument ==
    (/\ pc = "done"
     /\ backend.outcome = "status"
     /\ backend.text \in BackendErrorTexts
     /\ Includes(backend.text, "WinAnsi cannot encode")
     /\ HasHebrewChar(backend.text)
     /\ fileIO.fallback # "failed") =>
        /\ result.status = "resolved"
        /\ result.signedDocumentUri # ""
        /\ result.signedDocumentUri # fileUri
        /\ StartsWith(result.signedDocumentUri, documentDirectory \o "hebrew_document_")

\* the key the form screen files a field's value under, and the same with
\* the white space kept as one blank
LabelKeys(label) ==
    {CollapseWhitespace(ToLowerCase(label), "_"),
     CollapseWhitespace(ToLowerCase(label), " ")}

\* the value of output field i of the direct call
FilledValue(i) == Get(svcResult.list[i], "value")

\* the entries of the call's userData filed under the label of input field i
MatchingEntries(i) ==
    {j \in 1..Len(svcCall.userData.k) :
        /\ svcCall.userData.k[j] \in LabelKeys(Get(svcCall.list[i], "label").s)
        /\ IsString(svcCall.userData.e[j])
        /\ svcCall.userData.e[j].s # ""}

\* C13: fillFormFields gives a field the user's value whenever userData holds
\* an entry filed under the field's label (lower-cased, white space collapsed),
\* before any default of the type, suggestion or placeholder.
C13_UserValueWins ==
    svcCall.op = "fillFormFields" =>
        \A i \in 1..Len(svcCall.list) : \A j \in MatchingEntries(i) :
            FilledValue(i) = svcCall.userData.e[j]


\* C14: whatever userData holds, as long as none of its keys is the normalized
\* label, fillFormFields gives a field of type email labelled 'Email Address'
\* the email of the user profile.
C14_EmailAddressDefaultsToProfile ==
    svcCall.op = "fillFormFields" =>
        \A i \in 1..Len(svcCall.list) :
            (/\ Get(svcCall.list[i], "type") = Str("email")
             /\ Get(svcCall.list[i], "label") = Str("Email Address")
             /\ \A j \in 1..Len(svcCall.userData.k) :
                    svcCall.userData.k[j] \notin LabelKeys("Email Address"))
            => FilledValue(i) = Get(userProfile, "email")


\* the placeholders of generateFieldValue
Placeholders == {Str("Sample text"), Str("Sample value")}

\* input field i of the direct call gets no value from userData and none
\* from its type or the profile
LeftToSuggestions(i) ==
    /\ ~Truthy(findUserValue(Get(svcCall.list[i], "label"), svcCall.userData))
    /\ generateFieldValue(svcCall.list[i]) \in Placeholders

\* C15: a field with no matching user value and no default of its type gets
\* its first suggestion when it has suggestions, and the placeholder only
\* when it has none.
C15_FirstSuggestionBeforePlaceholder ==
    svcCall.op = "fillFormFields" =>
        \A i \in 1..Len(svcCall.list) :
            LET suggestions == Get(svcCall.list[i], "suggestions") IN
            LeftToSuggestions(i) =>
                IF IsArray(suggestions) /\ Len(suggestions.e) > 0
                THEN FilledValue(i) = suggestions.e[1]
                ELSE FilledValue(i) \in Placeholders


\* C16: fillFormFields returns one field for each field it is given, in the
\* same order and with the same id, and every returned field has a value that
\* is a string and is not empty, for every type of field and every userData.
C16_EveryFieldIsFilled ==
    svcCall.op = "fillFormFields" =>
        /\ Len(svcResult.list) = Len(svcCall.list)
        /\ \A i \in 1..Len(svcCall.list) :
             /\ Get(svcResult.list[i], "id") = Get(svcCall.list[i], "id")
             /\ IsString(FilledValue(i))
             /\ FilledValue(i).s # ""

\* two fields, one of a type that has no default of its own, filled for a
\* user who gave nothing
C16_Witness ==
    /\ svcCall.op = "fillFormFields"
    /\ svcCall.userData = Obj(<<>>, <<>>)
    /\ Len(svcCall.list) = 2
    /\ Get(svcCall.list[1], "type") = Str("checkbox")
    /\ Get(svcCall.list[2], "type") = Str("date")
    /\ Get(svcResult.list[1], "id") = Str("13")
    /\ FilledValue(1) = Str("Sample value")
    /\ FilledValue(2) = Str(Today)


\* the answer the user gave to input question i of the direct call, under
\* the key question_<id> the form screen files it with
UserAnswer(i) ==
    Get(svcCall.userData, "question_" \o Get(svcCall.list[i], "id").s)

\* C17: answerQuestions returns one question for each question it is given,
\* and a question the user answered (userData.question_<id>) carries that
\* answer ('yes' gives 'Yes', 'no' gives 'No'); an answer is generated only
\* for a question the user left open.
C17_UserAnswerIsKept ==
    svcCall.op = "answerQuestions" =>
        /\ Len(svcResult.list) = Len(svcCall.list)
        /\ \A i \in 1..Len(svcCall.list) :
             LET value == Get(svcResult.list[i], "value") IN
             IF IsString(UserAnswer(i))
             THEN IsString(value) /\ ToLowerCase(value.s) = ToLowerCase(UserAnswer(i).s)
             ELSE value = generateQuestionAnswer(svcCall.list[i])


\* the field has a value: a string that is not empty
HasValue(field) == IsString(Get(field, "value")) /\ Get(field, "value").s # ""

\* the three faults of a field that the claim counts as errors
IsRequiredButEmpty(field) == Get(field, "required") = Bool(TRUE) /\ ~HasValue(field)

IsBadEmail(field) ==
    /\ HasValue(field)
    /\ Get(field, "type") = Str("email")
    /\ ~isValidEmail(Get(field, "value").s)

IsTooShort(field) ==
    /\ HasValue(field)
    /\ HasKey(Get(field, "validation"), "minLength")
    /\ Len(Get(field, "value").s) < Get(Get(field, "validation"), "minLength").n

\* the two faults it counts as warnings
IsBadPhone(field) ==
    /\ HasValue(field)
    /\ Get(field, "type") = Str("phone")
    /\ ~isValidPhone(Get(field, "value").s)

IsTooLong(field) ==
    /\ HasValue(field)
    /\ HasKey(Get(field, "validation"), "maxLength")
    /\ Len(Get(field, "value").s) > Get(Get(field, "validation"), "maxLength").n

\* C18: validateForm answers isValid = false exactly when some field is
\* required and has no value, is an email field whose value is no email
\* address, or has a value shorter than validation.minLength; a bad phone
\* number and a value longer than validation.maxLength give warnings only;
\* and isValid is the same as errors being empty.
C18_ValidityIsNoErrors ==
    svcCall.op = "validateForm" =>
        /\ svcResult.validation.isValid =
             ~(\E i \in 1..Len(svcCall.list) :
                  \/ IsRequiredButEmpty(svcCall.list[i])
                  \/ IsBadEmail(svcCall.list[i])
                  \/ IsTooShort(svcCall.list[i]))
        /\ svcResult.validation.isValid = (svcResult.validation.errors = <<>>)
        /\ \A i \in 1..Len(svcCall.list) :
             (IsBadPhone(svcCall.list[i]) \/ IsTooLong(svcCall.list[i]))
                 => svcResult.validation.warnings # <<>>

\* a form whose only faults are a bad phone number and an overlong value is
\* valid, with two warnings
C18_Witness ==
    /\ svcCall.op = "validateForm"
    /\ Len(svcCall.list) = 2
    /\ IsBadPhone(svcCall.list[1])
    /\ IsTooLong(svcCall.list[2])
    /\ svcResult.validation.isValid
    /\ Len(svcResult.validation.warnings) = 2
    /\ svcResult.validation.errors = <<>>


\* the list the secure store holds, <<>> when its item is no JSON list
StoredList ==
    IF stored = "" \/ JSONParseThrows(stored) THEN <<>>
    ELSE IF IsArray(JSONParse(stored)) THEN JSONParse(stored).e ELSE <<>>

\* doc has every member of document, with the same value
IsStoredAs(document, doc) ==
    \A j \in 1..Len(document.k) : Get(doc, document.k[j]) = document.e[j]

\* C19: when addRecentDocument(d) has completed, whatever list was stored
\* before (lists longer than the maximum included), the stored list has at
\* most MAX_RECENT_DOCUMENTS entries and d is one of them.
C19_AddedDocumentIsStored ==
    (recentCall.op = "add" /\ recentCall.pc = "done") =>
        /\ Len(StoredList) <= MAX_RECENT_DOCUMENTS
        /\ \E i \in 1..Len(StoredList) : IsStoredAs(recentCall.document, StoredList[i])


\* the list the secure store held before the call
ListBefore ==
    IF recentCall.before = "" \/ JSONParseThrows(recentCall.before) THEN <<>>
    ELSE IF IsArray(JSONParse(recentCall.before))
    THEN JSONParse(recentCall.before).e ELSE <<>>

\* C20: removeRecentDocument(x) stores the list that was stored before
\* without the document whose id is x: every other document is still there,
\* unchanged and in the same order, and when no document has the id x the
\* stored list is the list that was stored before.
C20_RemoveKeepsTheOthers ==
    (recentCall.op = "remove" /\ recentCall.pc = "done") =>
        StoredList = SelectSeq(ListBefore,
                         LAMBDA doc : Get(doc, "id") # Str(recentCall.documentId))


\* the scripts in the order of the claim, each with its blocks of Unicode
ScriptBlocks ==
    <<[tag |-> "he", blocks |-> {<<1424, 1535>>}],
      [tag |-> "ar", blocks |-> {<<1536, 1791>>}],
      [tag |-> "zh", blocks |-> {<<19968, 40959>>}],
      [tag |-> "ja", blocks |-> {<<12352, 12447>>, <<12448, 12543>>}],
      [tag |-> "ko", blocks |-> {<<44032, 55215>>}],
      [tag |-> "ru", blocks |-> {<<1024, 1279>>}],
      [tag |-> "th", blocks |-> {<<3584, 3711>>}],
      [tag |-> "hi", blocks |-> {<<2304, 2431>>}]>>

\* the scripts, by their place in that order, that have a character in units
ScriptsOf(units) ==
    {k \in 1..Len(ScriptBlocks) :
        \E i \in 1..Len(units) : \E b \in ScriptBlocks[k].blocks :
            b[1] <= units[i] /\ units[i] <= b[2]}

\* C21: detectLanguage returns, for every text, the tag of the first script
\* in the order Hebrew, Arabic, Chinese, Japanese, Korean, Cyrillic, Thai,
\* Devanagari that has a character in the text, wherever and however often,
\* and 'en' when no script has one.
C21_FirstScriptInOrderWins ==
    svcCall.op = "detectLanguage" =>
        LET found == ScriptsOf(svcCall.list) IN
        svcResult.list =
            <<Str(IF found = {} THEN "en"
                  ELSE ScriptBlocks[CHOOSE k \in found : \A j \in found : k <= j].tag)>>

\* a text with a Japanese character first, then two Arabic ones, is Arabic
C21_Witness ==
    /\ svcCall.op = "detectLanguage"
    /\ svcCall.list = <<12354, 1536, 1536>>
    /\ svcResult.list = <<Str("ar")>>


C23_OneRequestOneFallback ==
    /\ fetches <= 1
    /\ fallbacks <= 1
    /\ ~llmUrl => fetches = 0
    /\ providerStage \in ProviderFailures => (fetches = 1 /\ fallbacks = 1)

\* the request failed, the fallback was computed, and processDocument has
\* run to its end
C23_Witness ==
    /\ pc = "done"
    /\ providerStage = "networkError"
    /\ fetches = 1
    /\ fallbacks = 1


\* everything but the two flags of the race
AllButRace == <<inputs, pc, data, provider, analyzed, reconciled, backend, fileIO,
                result, direct, recent, screen>>

\* C24: the first of the provider fetch and the timeout timer to settle
\* decides.  When the timer is first, the analysis is the heuristic fallback,
\* as it is for a network error; and the one that settles second, a response
\* after the timeout or the timer after the response, changes nothing.
C24_FirstToSettleDecides ==
    [][/\ (pc = "race" /\ providerStage' \in {"timeout", "networkError"})
            => (/\ pc' = "info"
                /\ aiAnalysis' = getFallbackAnalysis(content, fileType)
                /\ (providerStage' = "timeout") = (timerPending /\ ~timerPending'))
       /\ (pc # "race" /\ ((fetchPending /\ ~fetchPending') \/ (timerPending /\ ~timerPending')))
            => UNCHANGED AllButRace]_vars

\* the timer fired first, the response came afterwards, and processDocument
\* resolved with the analysis of the fallback
C24_Witness ==
    /\ providerStage = "timeout"
    /\ ~fetchPending
    /\ ~timerPending
    /\ pc = "done"
    /\ result.status = "resolved"
    /\ aiAnalysis = getFallbackAnalysis(content, fileType)


\* the signature fields that were given a value
SignedFields == {i \in 1..Len(filledFields) : IsSignedField(filledFields[i])}

\* the x and y of the position of a field or zone (undefined without one)
PlaceOf(source) ==
    <<GetOpt(Get(source, "position"), "x"), GetOpt(Get(source, "position"), "y")>>

\* a signed signature field describes the position of the zone
CoveredByField(zone) ==
    \E i \in SignedFields :
        /\ PlaceOf(zone)[1].t = "number"
        /\ PlaceOf(zone)[2].t = "number"
        /\ PlaceOf(filledFields[i]) = PlaceOf(zone)

\* the zones of the analysis a signed field covers, for which the user data
\* holds a signature as well
ZonesCoveredByFields ==
    IF ~IsArray(Get(analysis, "signatures")) THEN {}
    ELSE {k \in 1..Len(Get(analysis, "signatures").e) :
             LET zone == Get(analysis, "signatures").e[k] IN
             /\ ~IsNullish(zone)
             /\ CoveredByField(zone)
             /\ Truthy(Get(userData, SignatureKey(zone)))}

\* C25: when signature fields and signature zones describe the same
\* positions (x = 0 and y = 0 included) the zones add no request: one request
\* is sent for each such position, the one of the field.
C25_OneRequestPerPosition ==
    (/\ upload.sent
     /\ ZonesCoveredByFields # {}
     /\ Cardinality(ZonesCoveredByFields) = Len(Get(analysis, "signatures").e))
        => Len(SentRequests.e) = Cardinality(SignedFields)

\* the same for the positions whose x and y are not 0, where it holds
OneRequestPerNonZeroPosition ==
    (\A k \in ZonesCoveredByFields :
        /\ PlaceOf(Get(analysis, "signatures").e[k])[1] # Num(0)
        /\ PlaceOf(Get(analysis, "signatures").e[k])[2] # Num(0))
        => C25_OneRequestPerPosition

NonZeroPositionCovered ==
    /\ upload.sent
    /\ ZonesCoveredByFields # {}
    /\ Len(SentRequests.e) = 1


\* the x and y of the points of the fixed stroke
FixedStroke == <<<<0, 0>>, <<50, 10>>, <<100, 0>>, <<100, 20>>, <<0, 20>>>>

\* the requests of the upload that come before those of the zones
FieldRequestsSent == 1..Cardinality(SignedFields)

\* no request built before the zone's has the x and y of the zone's position
NotCoveredEarlier(zone) ==
    \A j \in FieldRequestsSent :
        <<Get(SentRequests.e[j], "x"), Get(SentRequests.e[j], "y")>> # PlaceOf(zone)

\* C26: a signature zone that no earlier request covers gives a request with
\* the n points of the JSON array under signature_<zoneId>, x and y as drawn
\* (0 included); the fixed five-point stroke for any other value; and no
\* request when the user data has no such value.
C26_ZoneRequestKeepsDrawnPoints ==
    (/\ upload.sent
     /\ IsArray(Get(analysis, "signatures"))
     /\ Len(Get(analysis, "signatures").e) = 1
     /\ NotCoveredEarlier(Get(analysis, "signatures").e[1]))
        => LET value == Get(userData, SignatureKey(Get(analysis, "signatures").e[1]))
               nf == Cardinality(SignedFields)
               points == Get(SentRequests.e[nf + 1], "points").e
           IN IF value = Undefined
              THEN Len(SentRequests.e) = (IF nf = 0 THEN 1 ELSE nf)
              ELSE /\ Len(SentRequests.e) = nf + 1
                   /\ IF IsDrawnValue(value)
                      THEN LET drawn == JSONParse(value.s).e IN
                           /\ Len(points) = Len(drawn)
                           /\ \A j \in 1..Len(drawn) :
                                /\ Get(points[j], "x") = Get(drawn[j], "x")
                                /\ Get(points[j], "y") = Get(drawn[j], "y")
                      ELSE /\ Len(points) = Len(FixedStroke)
                           /\ \A j \in 1..Len(FixedStroke) :
                                /\ Get(points[j], "x") = Num(FixedStroke[j][1])
                                /\ Get(points[j], "y") = Num(FixedStroke[j][2])

\* the same for the drawn signatures none of whose points has x = 0 after
\* the first
ZoneRequestKeepsPointsOffTheEdge ==
    (pc = "upload" /\ Get(userData, "signature_1") # Str(EdgeSignature))
        => C26_ZoneRequestKeepsDrawnPoints


\* the ids of the elements of an array of the analysis
IdsOf(array) == [i \in 1..Len(array.e) |-> Get(array.e[i], "id")]

\* no element occurs twice
PairwiseDistinct(ids) == \A i, j \in 1..Len(ids) : i # j => ids[i] # ids[j]

\* the number of lines of a text
LineCount(text) == 1 + Cardinality({i \in 1..Len(text) : Char(text, i) = "\n"})

\* C27: in the heuristic analysis of a content the ids of the form fields
\* are pairwise distinct and so are the ids of the questions; there is at
\* most one form field and at most one question for each line.
C27_HeuristicIdsAreDistinct ==
    svcCall.op = "getFallbackAnalysis" =>
        LET formFields == Get(svcResult.list[1], "formFields")
            questions == Get(svcResult.list[1], "questions")
        IN /\ PairwiseDistinct(IdsOf(formFields))
           /\ PairwiseDistinct(IdsOf(questions))
           /\ Len(formFields.e) <= LineCount(svcCall.list[1].s)
           /\ Len(questions.e) <= LineCount(svcCall.list[1].s)

\* two equal lines, each an underscore field and a question: the two fields
\* and the two questions differ in their ids (and positions) only
C27_Witness ==
    /\ svcCall.op = "getFallbackAnalysis"
    /\ svcCall.list = <<Str("Are you sure? _____\nAre you sure? _____")>>
    /\ IdsOf(Get(svcResult.list[1], "formFields")) = <<Str("field_0"), Str("field_1")>>
    /\ IdsOf(Get(svcResult.list[1], "questions")) = <<Str("question_0"), Str("question_1")>>
    /\ Get(Get(svcResult.list[1], "formFields").e[1], "label")
         = Get(Get(svcResult.list[1], "formFields").e[2], "label")


\* the non-empty value the user entered on the screen for a field, Undefined
\* when the user left the field empty
EnteredFor(field) ==
    LET value == IF IsString(Get(field, "label"))
                 THEN Get(userData, UserDataKey(Get(field, "label").s))
                 ELSE Undefined
    IN IF IsString(value) /\ value.s # "" THEN value ELSE Undefined

\* C28: in the filledFields of processDocument a field has the non-empty
\* value the user entered for it on the screen, whatever its label; and a
\* field the user left empty has no value entered for another field.
C28_EnteredValueIsFilled ==
    \A i \in 1..Len(filledFields) :
        IF EnteredFor(filledFields[i]) # Undefined
        THEN Get(filledFields[i], "value") = EnteredFor(filledFields[i])
        ELSE \A j \in 1..Len(filledFields) :
                EnteredFor(filledFields[j]) # Undefined
                    => Get(filledFields[i], "value") # EnteredFor(filledFields[j])


\* C29: when neither the analysis nor the processing is under way the
\* screen shows the reviewing, the filling or the complete step, never the
\* progress steps 'analyzing' and 'signing', also after analyzeDocument or
\* processDocument failed.
C29_ScreenRestsOnAStepOfTheUser ==
    (~screen.isAnalyzing /\ ~screen.isProcessing)
        => screen.currentStep \in {"reviewing", "filling", "complete"}


\* the documents of the stored list that have the name of the given one
StoredUnderName(document) ==
    {i \in 1..Len(StoredList) :
        Get(StoredList[i], "name") = Get(document, "name")}

\* both calls are adds of different documents, have completed, and none of
\* their calls of the secure store failed
BothAddsCompleted ==
    /\ recentCall.pc = "done"
    /\ otherCall.pc = "done"
    /\ recentCall.op = "add"
    /\ Get(recentCall.document, "name") # Get(otherCall.document, "name")
    /\ recentCall.io = [read |-> TRUE, rewrite |-> TRUE, write |-> TRUE]
    /\ otherCall.io = [read |-> TRUE, rewrite |-> TRUE, write |-> TRUE]

\* the second call read the store before the first one wrote it
AddsOverlapped == otherCall.before = recentCall.before

\* C30: once two addRecentDocument calls for different documents have
\* completed, the stored list holds both documents, however their reads and
\* writes interleaved (fewer than 9 entries stored before, all files there).
C30_NoAddIsLost ==
    (/\ BothAddsCompleted
     /\ Len(JSONParse(recentCall.before).e) < MAX_RECENT_DOCUMENTS - 1)
        => /\ StoredUnderName(recentCall.document) # {}
           /\ StoredUnderName(otherCall.document) # {}

\* the same for two calls of which the second began after the first ended
NoAddIsLostInTurn ==
    ~AddsOverlapped => C30_NoAddIsLost

BothAddedInTurn ==
    /\ BothAddsCompleted
    /\ ~AddsOverlapped
    /\ Get(recentCall.document, "name") = Str("new.pdf")
    /\ StoredUnderName(recentCall.document) # {}
    /\ StoredUnderName(otherCall.document) # {}


====
